---- MODULE Spec2Model ----
(***************************************************************************)
(* The session-monitoring daemon of CCD: the Watcher that drives           *)
(* Parser -> Extractor -> Scorer -> remote store -> Ledger on every log    *)
(* write, the continuity ledger, the handoff debounce and shutdown.        *)
(*                                                                         *)
(* Time is counted in minutes.  Two goroutines exist once Start returned:  *)
(* main (blocked on the signal, then running Stop) and the watch loop.     *)
(* A processing cycle is a sequence of steps (cpc) so that Stop can        *)
(* interleave with it exactly where the Go scheduler allows it to.         *)
(***************************************************************************)
EXTENDS Integers, Sequences, FiniteSets, TLC

VARIABLES
    enhanced,       \* TRUE: the EnhancedWatcher of watcher_enhanced.go is the watcher built
    smartMode,      \* config.SmartMode
    ledgerDir,      \* the directory thoughts/ledgers exists (os.MkdirAll in NewLedger succeeded)
    now,            \* wall clock, minutes
    lastHandoff,    \* Watcher.lastHandoff
    currentTokens,  \* Watcher.currentTokens
    mpc,            \* main goroutine: "sweep","running","stop1","stop2","stopped","exited"
    wpc,            \* watch goroutine: "none","loop","returned"
    cpc,            \* position inside processLogFile: "idle","check","handoff","push","append","done"
    sweepLeft,      \* .log files the startup sweep still has to process
    closed,         \* fsnotify subscription closed
    crashed,        \* the process died of a nil dereference
    facts,          \* processLogFile: facts extracted in the current cycle
    tokenCount,     \* processLogFile: tokenCount of the current cycle
    idx,            \* loop position in the range over facts (1-based)
    enhancedFacts,  \* processWithSmartFeatures: enhancedFacts built so far
    ledgerFiles,    \* thoughts/ledgers: day -> sequence of entries (one per line)
    handoffFiles,   \* thoughts/shared/handoffs: timestamp in the file name -> content
    cycleNo,        \* history: number of cycles started
    attempts,       \* the CreateFact requests of the current cycle and their results, in order
    appendOutcome,  \* history: how AppendEntry ended in the current cycle, or "none"
    handoffLog,     \* history: handoff files written by this run, in order
    calls,          \* history: the last two createHandoffIfNeeded(false) calls, in order
    readFailed,     \* history: the step taken last was a failed os.ReadFile
    failed,         \* history: the failures met by the step taken last
    call            \* a package driven alone: the call made last, its arguments and result

vars == <<enhanced, smartMode, ledgerDir, now, lastHandoff, currentTokens, mpc, wpc, cpc,
          sweepLeft, closed, crashed, facts, tokenCount, idx, enhancedFacts,
          ledgerFiles, handoffFiles, cycleNo, attempts, appendOutcome,
          handoffLog, calls, readFailed, failed, call>>

-----------------------------------------------------------------------------
(* Bounds of the model *)

MaxCycles == 2
MaxTicks == 2
TickMinutes == 15
MaxSweep == 1
StartMinute == 1420

(* Program constants *)

HandoffMinInterval == 30
CompactThreshold == 170000
WarningPercent == 85
MinutesPerDay == 1440
CharsPerToken == 4

-----------------------------------------------------------------------------
(* Log contents.  A message content is summarised by what the pipeline     *)
(* reads of it: its length, the fact types whose trigger phrases it holds  *)
(* and the sentence extractSentence returns.  A sentence is summarised by  *)
(* its text, its length and the keyword hits analyzeContent counts.        *)

Plain == [text |-> "it must be done", len |-> 15, hi |-> 0, med |-> 0]
Urgent == [text |-> "critical security bug", len |-> 120, hi |-> 3, med |-> 1]

SmallLen == 400
BigLen == 600000

Msg(role, len, triggers, sentence) ==
    [role |-> role, len |-> len, triggers |-> triggers, sentence |-> sentence]

Conversations ==
    { <<>>,
      << Msg("user", SmallLen, {"todo"}, Plain),
         Msg("assistant", SmallLen, {"blocker"}, Urgent) >>,
      << Msg("assistant", BigLen, {"decision", "todo"}, Plain) >> }

FactTypeOrder ==
    <<"decision", "blocker", "todo", "file_change", "dependency", "insight">>

DefaultImportance(type) ==
    CASE type = "decision" -> 4
      [] type = "blocker" -> 5
      [] type = "todo" -> 3
      [] type = "file_change" -> 2
      [] type = "dependency" -> 3
      [] type = "insight" -> 3

MsgFacts(msg) ==
    LET ts == SelectSeq(FactTypeOrder, LAMBDA t : t \in msg.triggers)
    IN  [i \in 1..Len(ts) |->
            [Type |-> ts[i], Content |-> msg.sentence,
             Importance |-> DefaultImportance(ts[i])]]

RECURSIVE ExtractFacts(_)
ExtractFacts(conv) ==
    IF conv = <<>> THEN <<>>
    ELSE (IF Head(conv).role = "assistant" THEN MsgFacts(Head(conv)) ELSE <<>>)
         \o ExtractFacts(Tail(conv))

RECURSIVE CountTokens(_)
CountTokens(conv) ==
    IF conv = <<>> THEN 0
    ELSE (Head(conv).len \div CharsPerToken) + CountTokens(Tail(conv))

-----------------------------------------------------------------------------
(* smart: ImportanceScorer and PreCompactDetector.  Scores are kept in     *)
(* tenths; BelowHalf holds the inputs where float64 rounds another way.    *)

TypeWeight(type) ==
    CASE type = "blocker" -> 30
      [] type = "decision" -> 27
      [] type = "dependency" -> 21
      [] type = "todo" -> 18
      [] type = "insight" -> 15
      [] type = "file_change" -> 12
      [] OTHER -> 0

Min2(a, b) == IF a < b THEN a ELSE b

lengthBonus(content) ==
    IF content.len > 100 THEN 3 ELSE IF content.len > 50 THEN 2 ELSE 0

analyzeContent(content) ==
    Min2(3 * content.hi + 2 * content.med + lengthBonus(content), 15)

recencyBonus(ageMinutes) ==
    IF ageMinutes < 60 THEN 5
    ELSE IF ageMinutes < 24 * 60 THEN 3
    ELSE IF ageMinutes < 168 * 60 THEN 1
    ELSE 0

\* The float64 sum of the source is not always the exact sum of tenths: 0.7 *
\* 3.0 is 2.0999999999999996, 0.6 * 3.0 is 1.7999999999999998 and repeated
\* additions of 0.3 and 0.2 drift.  These are the inputs <<type weight, high
\* keywords, medium keywords, length bonus, recency bonus>> whose exact sum
\* ends in .5 and whose float64 sum, computed in the order of the source,
\* falls just below it, so that math.Round rounds it down.
BelowHalf ==
    { <<0, 1, 5, 2, 0>>, <<0, 3, 2, 2, 0>>, <<0, 3, 3, 0, 0>>, <<18, 0, 1, 2, 3>>,
      <<18, 0, 2, 0, 3>>, <<18, 1, 4, 3, 3>>, <<18, 2, 3, 2, 3>>, <<18, 2, 4, 0, 3>>,
      <<18, 3, 1, 3, 3>>, <<18, 4, 0, 2, 3>>, <<18, 4, 1, 0, 3>>, <<21, 0, 0, 3, 1>>,
      <<21, 0, 1, 2, 0>>, <<21, 0, 2, 0, 0>>, <<21, 0, 4, 3, 3>>, <<21, 0, 5, 3, 1>>,
      <<21, 1, 0, 0, 1>>, <<21, 1, 2, 2, 5>>, <<21, 1, 3, 0, 5>>, <<21, 1, 3, 2, 3>>,
      <<21, 1, 4, 0, 3>>, <<21, 1, 4, 2, 1>>, <<21, 1, 4, 3, 0>>, <<21, 1, 5, 0, 1>>,
      <<21, 2, 0, 3, 5>>, <<21, 2, 1, 3, 3>>, <<21, 2, 2, 3, 1>>, <<21, 2, 3, 2, 0>>,
      <<21, 2, 4, 0, 0>>, <<21, 3, 0, 0, 5>>, <<21, 3, 0, 2, 3>>, <<21, 3, 1, 0, 3>>,
      <<21, 3, 1, 2, 1>>, <<21, 3, 1, 3, 0>>, <<21, 3, 2, 0, 1>>, <<21, 4, 0, 2, 0>>,
      <<21, 4, 1, 0, 0>> }

CalculateImportanceUnclamped(type, content, ageMinutes) ==
    LET score == TypeWeight(type) + analyzeContent(content) + recencyBonus(ageMinutes)
    IN  (score + 5) \div 10

\* int(math.Round(score)) clamped to 1..5
CalculateImportance(type, content, ageMinutes) ==
    LET score == TypeWeight(type) + analyzeContent(content) + recencyBonus(ageMinutes)
        key == <<TypeWeight(type), content.hi, content.med, lengthBonus(content),
                 recencyBonus(ageMinutes)>>
        normalized == IF key \in BelowHalf THEN (score + 5) \div 10 - 1
                      ELSE (score + 5) \div 10
    IN  IF normalized < 1 THEN 1
        ELSE IF normalized > 5 THEN 5
        ELSE normalized

ShouldCreateHandoff(tokens) ==
    100 * tokens >= WarningPercent * CompactThreshold

-----------------------------------------------------------------------------
(* ledger *)

SessionID == "this"
PriorEntry ==
    [Timestamp |-> StartMinute - TickMinutes, SessionID |-> "prior",
     TokenCount |-> 100, Facts |-> <<>>,
     Decisions |-> <<>>, NextSteps |-> <<>>, Blockers |-> <<>>, FileChanges |-> <<>>,
     cycle |-> 0]

NoFiles == [d \in {} |-> <<>>]

Day(t) == t \div MinutesPerDay

MaxOf(S) == CHOOSE x \in S : \A y \in S : y <= x

\* json.Marshal coerces a string to valid UTF-8: every invalid byte becomes
\* U+FFFD, which takes three bytes.  <E9> stands for the byte 0xE9.
InvalidUTF8 == {"fix the caf<E9> menu"}

ToValidUTF8(text) ==
    IF text = "fix the caf<E9> menu" THEN "fix the caf<U+FFFD> menu" ELSE text

CoerceContent(content) ==
    IF content.text \in InvalidUTF8
    THEN [content EXCEPT !.text = ToValidUTF8(content.text), !.len = content.len + 2]
    ELSE content

CoerceAll(texts) == [i \in 1..Len(texts) |-> ToValidUTF8(texts[i])]

\* the JSON document json.Marshal writes, as the data it spells
Marshal(entry) ==
    [entry EXCEPT
        !.Facts = [i \in 1..Len(entry.Facts) |->
                      [entry.Facts[i] EXCEPT !.Content = CoerceContent(entry.Facts[i].Content)]],
        !.Decisions = CoerceAll(entry.Decisions),
        !.NextSteps = CoerceAll(entry.NextSteps),
        !.Blockers = CoerceAll(entry.Blockers),
        !.FileChanges = CoerceAll(entry.FileChanges)]

\* how AppendEntry can end: "ok", "open_fail" (os.OpenFile failed), "write_fail"
\* (file.Write failed).  O_CREATE makes the file, never its directory.
AppendOutcomes(dirExists) ==
    IF dirExists THEN {"ok", "open_fail", "write_fail"} ELSE {"open_fail"}

AppendEntryTruncating(files, entry, t, outcome) ==
    LET d == Day(t)
        old == IF d \in DOMAIN files THEN files[d] ELSE <<>>
        new == IF outcome = "ok" THEN <<Marshal(entry)>> ELSE old
    IN  IF outcome = "open_fail" THEN files
        ELSE [x \in DOMAIN files \cup {d} |-> IF x = d THEN new ELSE files[x]]

\* os.OpenFile with O_APPEND|O_CREATE, then one Write of the document and "\n"
AppendEntry(files, entry, t, outcome) ==
    LET d == Day(t)
        old == IF d \in DOMAIN files THEN files[d] ELSE <<>>
        new == IF outcome = "ok" THEN Append(old, Marshal(entry)) ELSE old
    IN  IF outcome = "open_fail" THEN files
        ELSE [x \in DOMAIN files \cup {d} |-> IF x = d THEN new ELSE files[x]]

GetFirstEntry(files, readOk) ==
    IF DOMAIN files = {} THEN [ptr |-> "nil", err |-> FALSE]
    ELSE IF ~readOk THEN [ptr |-> "nil", err |-> TRUE]
    ELSE LET lines == files[MaxOf(DOMAIN files)]
         IN  IF Len(lines) = 0 THEN [ptr |-> "nil", err |-> TRUE]
             ELSE [ptr |-> "entry", err |-> FALSE, entry |-> lines[1]]

\* the (pointer, error) pair GetLatestEntry returns; readOk: os.ReadFile succeeded
GetLatestEntry(files, readOk) ==
    IF DOMAIN files = {} THEN [ptr |-> "nil", err |-> FALSE]
    ELSE IF ~readOk THEN [ptr |-> "nil", err |-> TRUE]
    ELSE LET lines == files[MaxOf(DOMAIN files)]
         IN  IF Len(lines) = 0 THEN [ptr |-> "nil", err |-> TRUE]
             ELSE [ptr |-> "entry", err |-> FALSE, entry |-> lines[Len(lines)]]

filterFactsByType(fs, type) ==
    LET sel == SelectSeq(fs, LAMBDA f : f.Type = type)
    IN  [i \in 1..Len(sel) |-> sel[i].Content.text]

generateHandoffSummary(entry) ==
    LET s == (IF Len(entry.Decisions) > 0 THEN <<"Made architectural decisions. ">> ELSE <<>>)
             \o (IF Len(entry.Blockers) > 0 THEN <<"Encountered blockers. ">> ELSE <<>>)
             \o (IF Len(entry.FileChanges) > 0 THEN <<"Modified codebase. ">> ELSE <<>>)
    IN  IF s = <<>> THEN <<"Continued development work.">> ELSE s

HandoffContent(summary, fs, t) ==
    [session |-> SessionID, timestamp |-> t, summary |-> summary,
     facts |-> [i \in 1..Len(fs) |->
                   [Type |-> fs[i].Type, Content |-> fs[i].Content,
                    Importance |-> fs[i].Importance]]]

\* os.WriteFile under the name handoff_<session>_<second>: same second, same file
CreateHandoff(files, summary, fs, t) ==
    [x \in DOMAIN files \cup {t} |->
        IF x = t THEN HandoffContent(summary, fs, t) ELSE files[x]]

-----------------------------------------------------------------------------
(* Watcher *)

SmartWhateverTheFlag == ~enhanced

\* processLogFile takes the smart branch: the Watcher of watcher.go in smart
\* mode.  EnhancedWatcher.Start runs a base Watcher, whose cycles are basic.
Smart == ~enhanced /\ smartMode

\* Stop makes the forced createHandoffIfNeeded(true) call: Watcher.Stop in smart
\* mode, EnhancedWatcher.Stop always (it does not read config.SmartMode)
StopMakesHandoff == enhanced \/ smartMode

Alive == ~crashed /\ mpc # "exited"

\* processLogFile has read its file and has effects left to make
InFlight == cpc \notin {"idle", "done"}

DebounceNever(force, t, last) == TRUE

\* the guard of createHandoffIfNeeded: FALSE is the early return
DebouncePasses(force, t, last) ==
    force \/ ~(t - last < HandoffMinInterval)

\* what the rest of createHandoffIfNeeded does with the ledger it finds
HandoffOutcome(files, readOk, writeOk) ==
    LET r == GetLatestEntry(files, readOk)
    IN  IF r.err THEN "error"
        ELSE IF r.ptr = "nil" THEN "panic"
        ELSE IF ~writeOk THEN "write_fail"
        ELSE "written"

LastHandoffAfterAttempt(out, t, last) == IF out = "panic" THEN last ELSE t

\* w.lastHandoff = time.Now() is reached only past the three returns
LastHandoffAfter(out, t, last) == IF out = "written" THEN t ELSE last

\* the failure, if any, that createHandoffIfNeeded reports
HandoffFailure(out) ==
    CASE out = "error" -> {"latest"}
      [] out = "write_fail" -> {"handoff"}
      [] OTHER -> {}

\* the log statement of a failure is executed: some are inside if w.verbose,
\* some are not
Logs(kind, isVerbose, isEnhanced) ==
    CASE kind = "read" -> isVerbose
      [] kind = "create_fact" -> TRUE
      [] kind = "append" -> isVerbose
      [] kind = "latest" -> isVerbose \/ isEnhanced
      [] kind = "handoff" -> TRUE
      [] kind = "watcher_error" -> TRUE

\* what the step taken last wrote to the log about its failures.  config.Verbose
\* changes nothing but what is logged: it is an argument here, not a variable.
LogOutput(isVerbose) == {k \in failed : Logs(k, isVerbose, enhanced)}

NextIndexAbortOnError(i, ok, n) == IF ok THEN i + 1 ELSE n + 1

\* the range loop over facts goes on to the next fact whatever CreateFact returned
NextIndex(i, ok, n) == i + 1

AddEnhancedOnSuccess(efs, f, ok) == IF ok THEN Append(efs, f) ELSE efs

\* enhancedFacts = append(enhancedFacts, ...): whatever CreateFact returned
AddEnhanced(efs, f, ok) == Append(efs, f)

TokensResetOnFailure(ok, old, conv) == IF ok THEN CountTokens(conv) ELSE 0

\* w.currentTokens after the read: assigned only past the two early returns
TokensAfterRead(ok, old, conv) == IF ok THEN CountTokens(conv) ELSE old

\* where processLogFile stands once the loop is at position i of n facts
AfterPush(i, n) ==
    IF i <= n THEN "push" ELSE IF Smart THEN "append" ELSE "done"

\* where processWithSmartFeatures goes after reading the file
AfterRead(n) == IF Smart THEN "check" ELSE AfterPush(1, n)

BuildEntryBackdated(fs, tokens, t, c) ==
    [Timestamp |-> StartMinute - c, SessionID |-> SessionID, TokenCount |-> tokens,
     Facts |-> fs,
     Decisions |-> filterFactsByType(fs, "decision"),
     NextSteps |-> filterFactsByType(fs, "todo"),
     Blockers |-> filterFactsByType(fs, "blocker"),
     FileChanges |-> filterFactsByType(fs, "file_change"),
     cycle |-> c]

\* the LedgerEntry processWithSmartFeatures builds: Timestamp is time.Now()
BuildEntry(fs, tokens, t, c) ==
    [Timestamp |-> t, SessionID |-> SessionID, TokenCount |-> tokens, Facts |-> fs,
     Decisions |-> filterFactsByType(fs, "decision"),
     NextSteps |-> filterFactsByType(fs, "todo"),
     Blockers |-> filterFactsByType(fs, "blocker"),
     FileChanges |-> filterFactsByType(fs, "file_change"),
     cycle |-> c]

\* the record CreateFact posts to the extracted_facts collection
CreateFact(f) ==
    [fact_type |-> f.Type, content |-> f.Content.text,
     importance |-> f.Importance, stale |-> FALSE]

\* the record as UpdateFactStale leaves it; no function of the daemon calls
\* UpdateFactStale
UpdateFactStale(record, stale) == [record EXCEPT !.stale = stale]

LastTwo(s) == IF Len(s) > 2 THEN Tail(s) ELSE s

\* no package has been driven alone
NoCall ==
    [op |-> "none", n |-> 0, ok |-> TRUE, allOk |-> TRUE, readOk |-> TRUE,
     last |-> BuildEntry(<<>>, 0, 0, 0), result |-> [ptr |-> "nil", err |-> FALSE]]

Init ==
    /\ enhanced \in BOOLEAN
    /\ smartMode \in BOOLEAN
    /\ ledgerDir \in BOOLEAN
    /\ ~ledgerDir => (enhanced \/ smartMode)
    /\ now = StartMinute
    /\ lastHandoff = StartMinute
    /\ currentTokens = 0
    /\ mpc = "sweep"
    /\ wpc = "none"
    /\ cpc = "idle"
    /\ sweepLeft \in 0..MaxSweep
    /\ closed = FALSE
    /\ crashed = FALSE
    /\ facts = <<>>
    /\ tokenCount = 0
    /\ idx = 1
    /\ enhancedFacts = <<>>
    /\ ledgerFiles \in {NoFiles, [d \in {Day(PriorEntry.Timestamp)} |-> <<PriorEntry>>]}
    /\ ~ledgerDir => ledgerFiles = NoFiles
    /\ handoffFiles = NoFiles
    /\ cycleNo = 0
    /\ attempts = <<>>
    /\ appendOutcome = "none"
    /\ handoffLog = <<>>
    /\ calls = <<>>
    /\ readFailed = FALSE
    /\ failed = {}
    /\ call = NoCall

CycleMayStartAnytime(pc) == TRUE

\* processLogFile is called synchronously, by processExistingLogs and by the
\* watch loop: the caller is back in its loop only when the call has returned
CycleMayStart(pc) == pc = "idle"

\* processLogFile up to the branch on smartMode: os.ReadFile, Parse,
\* ExtractFacts, CountTokens
ReadLogFile(ok, conv) ==
    /\ CycleMayStart(cpc)
    /\ cycleNo < MaxCycles
    /\ cycleNo' = cycleNo + 1
    /\ currentTokens' = TokensAfterRead(ok, currentTokens, conv)
    /\ IF ok
       THEN /\ facts' = ExtractFacts(conv)
            /\ tokenCount' = CountTokens(conv)
            /\ idx' = 1
            /\ enhancedFacts' = <<>>
            /\ attempts' = <<>>
            /\ appendOutcome' = "none"
            /\ cpc' = AfterRead(Len(ExtractFacts(conv)))
            /\ readFailed' = FALSE
            /\ failed' = {}
       ELSE /\ UNCHANGED <<facts, tokenCount, idx, enhancedFacts, attempts,
                           appendOutcome, cpc>>
            /\ readFailed' = TRUE
            /\ failed' = {"read"}
    /\ UNCHANGED <<call, enhanced, smartMode, ledgerDir, now, lastHandoff, mpc, wpc,
                   closed, crashed, ledgerFiles, handoffFiles, handoffLog, calls>>

\* Start: processExistingLogs handles one pre-existing .log file
SweepFile ==
    /\ Alive
    /\ mpc = "sweep"
    /\ sweepLeft > 0
    /\ sweepLeft' = sweepLeft - 1
    /\ \E ok \in BOOLEAN, conv \in Conversations : ReadLogFile(ok, conv)

\* Start: the sweep is over, go w.watch()
StartWatch ==
    /\ Alive
    /\ mpc = "sweep"
    /\ sweepLeft = 0
    /\ cpc = "idle"
    /\ mpc' = "running"
    /\ wpc' = "loop"
    /\ readFailed' = FALSE
    /\ failed' = {}
    /\ UNCHANGED <<call, enhanced, smartMode, ledgerDir, now, lastHandoff,
                   currentTokens, cpc, sweepLeft, closed, crashed, facts, tokenCount,
                   idx, enhancedFacts, ledgerFiles, handoffFiles, cycleNo, attempts,
                   appendOutcome, handoffLog, calls>>

\* watch: a Write event is received from w.watcher.Events
WriteEvent ==
    /\ Alive
    /\ wpc = "loop"
    /\ ~closed
    /\ UNCHANGED sweepLeft
    /\ \E ok \in BOOLEAN, conv \in Conversations : ReadLogFile(ok, conv)

\* watch: an error is received from w.watcher.Errors
WatcherError ==
    /\ Alive
    /\ wpc = "loop"
    /\ ~closed
    /\ cpc = "idle"
    /\ readFailed' = FALSE
    /\ failed' = {"watcher_error"}
    /\ UNCHANGED <<call, enhanced, smartMode, ledgerDir, now, lastHandoff,
                   currentTokens, mpc, wpc, cpc, sweepLeft, closed, crashed, facts,
                   tokenCount, idx, enhancedFacts, ledgerFiles, handoffFiles, cycleNo,
                   attempts, appendOutcome, handoffLog, calls>>

\* watch: the Events channel is closed, the loop returns
WatchExit ==
    /\ Alive
    /\ wpc = "loop"
    /\ closed
    /\ cpc = "idle"
    /\ wpc' = "returned"
    /\ readFailed' = FALSE
    /\ failed' = {}
    /\ UNCHANGED <<call, enhanced, smartMode, ledgerDir, now, lastHandoff,
                   currentTokens, mpc, cpc, sweepLeft, closed, crashed, facts,
                   tokenCount, idx, enhancedFacts, ledgerFiles, handoffFiles, cycleNo,
                   attempts, appendOutcome, handoffLog, calls>>

\* processWithSmartFeatures: ShouldCreateHandoff, then the debounce guard of
\* createHandoffIfNeeded(false)
CheckHandoff ==
    /\ Alive
    /\ cpc = "check"
    /\ IF ShouldCreateHandoff(tokenCount)
       THEN /\ calls' = LastTwo(Append(calls,
                   [t |-> now,
                    hasEntry |-> GetLatestEntry(ledgerFiles, TRUE).ptr = "entry",
                    passed |-> DebouncePasses(FALSE, now, lastHandoff),
                    wrote |-> FALSE]))
            /\ cpc' = IF DebouncePasses(FALSE, now, lastHandoff)
                      THEN "handoff" ELSE AfterPush(1, Len(facts))
       ELSE /\ calls' = calls
            /\ cpc' = AfterPush(1, Len(facts))
    /\ readFailed' = FALSE
    /\ failed' = {}
    /\ UNCHANGED <<call, enhanced, smartMode, ledgerDir, now, lastHandoff,
                   currentTokens, mpc, wpc, sweepLeft, closed, crashed, facts,
                   tokenCount, idx, enhancedFacts, ledgerFiles, handoffFiles, cycleNo,
                   attempts, appendOutcome, handoffLog>>

\* createHandoffIfNeeded past its guard: GetLatestEntry, generateHandoffSummary,
\* CreateHandoff, lastHandoff = time.Now()
HandoffBody(force, readOk, writeOk) ==
    LET out == HandoffOutcome(ledgerFiles, readOk, writeOk)
        latest == GetLatestEntry(ledgerFiles, readOk).entry
    IN  /\ crashed' = (out = "panic")
        /\ failed' = HandoffFailure(out)
        /\ lastHandoff' = LastHandoffAfter(out, now, lastHandoff)
        /\ IF out = "written"
           THEN /\ handoffFiles' = CreateHandoff(handoffFiles,
                                       generateHandoffSummary(latest), latest.Facts, now)
                /\ handoffLog' = Append(handoffLog,
                       [t |-> now, force |-> force,
                        cycle |-> IF force THEN 0 ELSE cycleNo,
                        entryCycle |-> latest.cycle,
                        inFlight |-> InFlight])
           ELSE UNCHANGED <<handoffFiles, handoffLog>>

DoHandoff ==
    /\ Alive
    /\ cpc = "handoff"
    /\ \E readOk \in BOOLEAN, writeOk \in BOOLEAN :
          /\ HandoffBody(FALSE, readOk, writeOk)
          /\ calls' = IF HandoffOutcome(ledgerFiles, readOk, writeOk) = "written"
                      THEN [calls EXCEPT ![Len(calls)].wrote = TRUE]
                      ELSE calls
    /\ cpc' = AfterPush(1, Len(facts))
    /\ readFailed' = FALSE
    /\ UNCHANGED <<call, enhanced, smartMode, ledgerDir, now, currentTokens, mpc,
                   wpc, sweepLeft, closed, facts, tokenCount, idx, enhancedFacts,
                   ledgerFiles, cycleNo, attempts, appendOutcome>>

\* one iteration of the range loop: CalculateImportance, CreateFact, append to
\* enhancedFacts
PushFact ==
    /\ Alive
    /\ cpc = "push"
    /\ idx <= Len(facts)
    /\ LET fact == facts[idx]
           importance == IF Smart
                         THEN CalculateImportance(fact.Type, fact.Content, 0)
                         ELSE fact.Importance
           sent == [fact EXCEPT !.Importance = importance]
       IN  \E ok \in BOOLEAN :
              /\ attempts' = Append(attempts, [record |-> CreateFact(sent), ok |-> ok])
              /\ enhancedFacts' =
                    IF Smart
                    THEN AddEnhanced(enhancedFacts,
                             [Type |-> fact.Type, Content |-> fact.Content,
                              Importance |-> importance, Timestamp |-> now], ok)
                    ELSE enhancedFacts
              /\ idx' = NextIndex(idx, ok, Len(facts))
              /\ failed' = IF ok THEN {} ELSE {"create_fact"}
              /\ cpc' = AfterPush(NextIndex(idx, ok, Len(facts)), Len(facts))
    /\ readFailed' = FALSE
    /\ UNCHANGED <<call, enhanced, smartMode, ledgerDir, now, lastHandoff,
                   currentTokens, mpc, wpc, sweepLeft, closed, crashed, facts,
                   tokenCount, ledgerFiles, handoffFiles, cycleNo, appendOutcome,
                   handoffLog, calls>>

\* processWithSmartFeatures: build the LedgerEntry and AppendEntry
AppendLedger ==
    /\ Alive
    /\ cpc = "append"
    /\ \E outcome \in AppendOutcomes(ledgerDir) :
          /\ ledgerFiles' = AppendEntry(ledgerFiles,
                                BuildEntry(enhancedFacts, tokenCount, now, cycleNo),
                                now, outcome)
          /\ appendOutcome' = outcome
          /\ failed' = IF outcome = "ok" THEN {} ELSE {"append"}
    /\ cpc' = "done"
    /\ readFailed' = FALSE
    /\ UNCHANGED <<call, enhanced, smartMode, ledgerDir, now, lastHandoff,
                   currentTokens, mpc, wpc, sweepLeft, closed, crashed, facts,
                   tokenCount, idx, enhancedFacts, handoffFiles, cycleNo, attempts,
                   handoffLog, calls>>

\* processLogFile returns: its locals are gone
EndCycle ==
    /\ Alive
    /\ cpc = "done"
    /\ cpc' = "idle"
    /\ facts' = <<>>
    /\ tokenCount' = 0
    /\ idx' = 1
    /\ enhancedFacts' = <<>>
    /\ attempts' = <<>>
    /\ appendOutcome' = "none"
    /\ readFailed' = FALSE
    /\ failed' = {}
    /\ UNCHANGED <<call, enhanced, smartMode, ledgerDir, now, lastHandoff,
                   currentTokens, mpc, wpc, sweepLeft, closed, crashed, ledgerFiles,
                   handoffFiles, cycleNo, handoffLog, calls>>

\* main: the signal arrives, watcher.Stop() is called
Signal ==
    /\ Alive
    /\ mpc = "running"
    /\ mpc' = "stop1"
    /\ readFailed' = FALSE
    /\ failed' = {}
    /\ UNCHANGED <<call, enhanced, smartMode, ledgerDir, now, lastHandoff,
                   currentTokens, wpc, cpc, sweepLeft, closed, crashed, facts,
                   tokenCount, idx, enhancedFacts, ledgerFiles, handoffFiles, cycleNo,
                   attempts, appendOutcome, handoffLog, calls>>

\* the order of the two statements of Stop: Watcher.Stop makes the handoff
\* first, EnhancedWatcher.Stop closes first
StopHandoffAt == IF enhanced THEN "stop2" ELSE "stop1"
StopCloseAt == IF enhanced THEN "stop1" ELSE "stop2"
StopNext(pc) == IF pc = "stop1" THEN "stop2" ELSE "stopped"

\* Stop: if w.smartMode { w.createHandoffIfNeeded(true) }
StopHandoff ==
    /\ Alive
    /\ mpc = StopHandoffAt
    /\ mpc' = StopNext(mpc)
    /\ IF StopMakesHandoff
       THEN \E readOk \in BOOLEAN, writeOk \in BOOLEAN :
               HandoffBody(TRUE, readOk, writeOk)
       ELSE /\ UNCHANGED <<handoffFiles, lastHandoff, handoffLog, crashed>>
            /\ failed' = {}
    /\ readFailed' = FALSE
    /\ UNCHANGED <<call, enhanced, smartMode, ledgerDir, now, currentTokens, wpc,
                   cpc, sweepLeft, closed, facts, tokenCount, idx, enhancedFacts,
                   ledgerFiles, cycleNo, attempts, appendOutcome, calls>>

\* Stop: w.watcher.Close()
StopClose ==
    /\ Alive
    /\ mpc = StopCloseAt
    /\ mpc' = StopNext(mpc)
    /\ closed' = TRUE
    /\ readFailed' = FALSE
    /\ failed' = {}
    /\ UNCHANGED <<call, enhanced, smartMode, ledgerDir, now, lastHandoff,
                   currentTokens, wpc, cpc, sweepLeft, crashed, facts, tokenCount, idx,
                   enhancedFacts, ledgerFiles, handoffFiles, cycleNo, attempts,
                   appendOutcome, handoffLog, calls>>

\* main returns after Stop: the process ends, whatever the watch goroutine does
Exit ==
    /\ Alive
    /\ mpc = "stopped"
    /\ mpc' = "exited"
    /\ readFailed' = FALSE
    /\ failed' = {}
    /\ UNCHANGED <<call, enhanced, smartMode, ledgerDir, now, lastHandoff,
                   currentTokens, wpc, cpc, sweepLeft, closed, crashed, facts,
                   tokenCount, idx, enhancedFacts, ledgerFiles, handoffFiles, cycleNo,
                   attempts, appendOutcome, handoffLog, calls>>

\* wall-clock time passes.  The clock has a resolution of TickMinutes: the
\* pushes and the append of one cycle fall within one reading of it, and so
\* do the statements of Stop and the return of main.
Tick ==
    /\ Alive
    /\ cpc \in {"idle", "handoff"}
    /\ mpc \in {"sweep", "running"}
    /\ now + TickMinutes <= StartMinute + MaxTicks * TickMinutes
    /\ now' = now + TickMinutes
    /\ readFailed' = FALSE
    /\ failed' = {}
    /\ UNCHANGED <<call, enhanced, smartMode, ledgerDir, lastHandoff, currentTokens,
                   mpc, wpc, cpc, sweepLeft, closed, crashed, facts, tokenCount, idx,
                   enhancedFacts, ledgerFiles, handoffFiles, cycleNo, attempts,
                   appendOutcome, handoffLog, calls>>

Next ==
    \/ SweepFile
    \/ StartWatch
    \/ WriteEvent
    \/ WatcherError
    \/ WatchExit
    \/ CheckHandoff
    \/ DoHandoff
    \/ PushFact
    \/ AppendLedger
    \/ EndCycle
    \/ Signal
    \/ StopHandoff
    \/ StopClose
    \/ Exit
    \/ Tick

Spec == Init /\ [][Next]_vars

\* the process does not stop while one of its goroutines can take a step
FairSpec == Spec /\ WF_vars(Next)

-----------------------------------------------------------------------------
(* The ledger package driven alone, on a freshly created ledger: any         *)
(* sequence of AppendEntry, GetLatestEntry and CreateHandoff calls.          *)

MaxAppends == 2

\* a sentence of a plain-text log that holds a byte which is not UTF-8
Mangled == [text |-> "fix the caf<E9> menu", len |-> 17, hi |-> 0, med |-> 0]

LedgerFact(type, content, importance, t) ==
    [Type |-> type, Content |-> content, Importance |-> importance, Timestamp |-> t]

LedgerFactLists(t) ==
    { <<>>,
      << LedgerFact("decision", Plain, 3, t) >>,
      << LedgerFact("todo", Mangled, 2, t), LedgerFact("blocker", Urgent, 5, t) >> }

LedgerEntries(t) == {BuildEntry(fs, 100 * Len(fs), t, 0) : fs \in LedgerFactLists(t)}

watcherVars ==
    <<enhanced, smartMode, ledgerDir, lastHandoff, currentTokens, mpc, wpc, cpc,
      sweepLeft, closed, crashed, facts, tokenCount, idx, enhancedFacts, cycleNo,
      attempts, appendOutcome, handoffLog, calls, readFailed, failed>>

\* NewLedger on a repository without a thoughts directory
LedgerInit ==
    /\ Init
    /\ ~enhanced
    /\ smartMode
    /\ ledgerDir
    /\ sweepLeft = 0
    /\ ledgerFiles = NoFiles

LedgerAppend ==
    /\ call.n < MaxAppends
    /\ \E entry \in LedgerEntries(now), outcome \in AppendOutcomes(ledgerDir) :
          /\ ledgerFiles' = AppendEntry(ledgerFiles, entry, now, outcome)
          /\ call' = [NoCall EXCEPT !.op = "append", !.n = call.n + 1,
                                    !.ok = outcome = "ok",
                                    !.allOk = call.allOk /\ outcome = "ok",
                                    !.last = entry]
    /\ UNCHANGED <<now, handoffFiles, watcherVars>>

LedgerGetLatest ==
    /\ \E readOk \in BOOLEAN :
          call' = [call EXCEPT !.op = "latest", !.ok = TRUE, !.readOk = readOk,
                               !.result = GetLatestEntry(ledgerFiles, readOk)]
    /\ UNCHANGED <<now, ledgerFiles, handoffFiles, watcherVars>>

\* CreateHandoff with the facts of the entry GetLatestEntry has just returned
LedgerCreateHandoff ==
    /\ call.op = "latest"
    /\ call.result.ptr = "entry"
    /\ \E writeOk \in BOOLEAN :
          handoffFiles' = IF writeOk
                          THEN CreateHandoff(handoffFiles,
                                             generateHandoffSummary(call.result.entry),
                                             call.result.entry.Facts, now)
                          ELSE handoffFiles
    /\ call' = [call EXCEPT !.op = "handoff", !.readOk = TRUE, !.result = NoCall.result]
    /\ UNCHANGED <<now, ledgerFiles, watcherVars>>

LedgerTick ==
    /\ now + TickMinutes <= StartMinute + MaxTicks * TickMinutes
    /\ now' = now + TickMinutes
    /\ UNCHANGED <<call, ledgerFiles, handoffFiles, watcherVars>>

LedgerNext ==
    \/ LedgerAppend
    \/ LedgerGetLatest
    \/ LedgerCreateHandoff
    \/ LedgerTick

LedgerSpec == LedgerInit /\ [][LedgerNext]_vars

-----------------------------------------------------------------------------
(* The Watcher of watcher.go in smart mode, whose ImportanceScorer is also   *)
(* called on its own, before the first cycle, with a fact type, a content    *)
(* and a creation time of any kind.                                          *)

\* the six types with a weight and one without
ScorerTypes ==
    {"blocker", "decision", "dependency", "todo", "insight", "file_change", "note"}

\* len(content): empty, short, and on both sides of the two length bonuses
ScorerLengths == {0, 40, 50, 51, 100, 101}

\* a content of n bytes holding hi of the high-value keywords and med of the
\* medium-value ones; the shortest of them are "bug" and "major"
ScorerContents ==
    {[text |-> "generated", len |-> n, hi |-> h, med |-> m] :
        n \in ScorerLengths, h \in 0..7, m \in 0..5} \ 
    {c \in [text : {"generated"}, len : ScorerLengths, hi : 0..7, med : 0..5] :
        3 * c.hi + 5 * c.med > c.len}

\* minutes since the creation time: in the future, now, and on both sides of
\* one hour, one day and one week; the last is the zero time.Time
ScorerAges ==
    {0 - MinutesPerDay, 0, 59, 60, 24 * 60 - 1, 24 * 60, 168 * 60 - 1, 168 * 60,
     1000 * 366 * MinutesPerDay}

ScorerInit == Init /\ Smart

ScorerCall ==
    /\ call.op = "none"
    /\ Smart
    /\ mpc = "sweep"
    /\ cycleNo = 0
    /\ now = StartMinute
    /\ \E type \in ScorerTypes, content \in ScorerContents, age \in ScorerAges :
          call' = [op |-> "score", type |-> type, content |-> content, age |-> age,
                   result |-> CalculateImportance(type, content, age)]
    /\ UNCHANGED <<now, ledgerFiles, handoffFiles, watcherVars>>

ScorerNext ==
    \/ call.op = "none" /\ Next
    \/ ScorerCall

ScorerSpec == ScorerInit /\ [][ScorerNext]_vars

-----------------------------------------------------------------------------
(* Strings, as sequences of characters, and the functions of package       *)
(* strings the program calls on them.                                      *)

Upper ==
    <<"A", "B", "C", "D", "E", "F", "G", "H", "I", "J", "K", "L", "M",
      "N", "O", "P", "Q", "R", "S", "T", "U", "V", "W", "X", "Y", "Z">>

Lower ==
    <<"a", "b", "c", "d", "e", "f", "g", "h", "i", "j", "k", "l", "m",
      "n", "o", "p", "q", "r", "s", "t", "u", "v", "w", "x", "y", "z">>

ToLowerChar(c) ==
    IF \E i \in 1..26 : Upper[i] = c
    THEN Lower[CHOOSE i \in 1..26 : Upper[i] = c]
    ELSE c

\* strings.ToLower
ToLower(str) == [i \in 1..Len(str) |-> ToLowerChar(str[i])]

\* strings.Contains
Contains(str, sub) ==
    \E i \in 0..(Len(str) - Len(sub)) : SubSeq(str, i + 1, i + Len(sub)) = sub

\* strings.HasPrefix
HasPrefix(str, prefix) ==
    Len(prefix) <= Len(str) /\ SubSeq(str, 1, Len(prefix)) = prefix

\* strings.TrimPrefix
TrimPrefix(str, prefix) ==
    IF HasPrefix(str, prefix) THEN SubSeq(str, Len(prefix) + 1, Len(str)) ELSE str

\* the characters strings.TrimSpace removes; "\n" is the line feed
WhiteSpace == {" ", "\t", "\n", "\r"}

\* strings.TrimSpace
TrimSpace(str) ==
    LET keep == {i \in 1..Len(str) : str[i] \notin WhiteSpace}
    IN  IF keep = {} THEN <<>>
        ELSE SubSeq(str, CHOOSE i \in keep : \A j \in keep : i <= j, MaxOf(keep))

\* strings.Split(str, sep) for a separator of one character
RECURSIVE Split(_, _)
Split(str, sep) ==
    IF \A i \in 1..Len(str) : str[i] # sep THEN <<str>>
    ELSE LET k == CHOOSE i \in 1..Len(str) :
                      str[i] = sep /\ \A j \in 1..(i - 1) : str[j] # sep
         IN  <<SubSeq(str, 1, k - 1)>> \o Split(SubSeq(str, k + 1, Len(str)), sep)

\* the concatenation of a sequence of strings
RECURSIVE Concat(_)
Concat(strs) == IF strs = <<>> THEN <<>> ELSE Head(strs) \o Concat(Tail(strs))

-----------------------------------------------------------------------------
(* The functions of package smart, of the extractor and of the parser,     *)
(* each called on its own with inputs of any kind.                         *)

resolved == <<"r", "e", "s", "o", "l", "v", "e", "d">>
done == <<"d", "o", "n", "e">>

\* the characters of the text of a sentence
SentenceChars(text) ==
    CASE text = "it must be done" -> <<"i", "t", " ", "m", "u", "s", "t", " ", "b", "e", " ", "d", "o",
          "n", "e">>
      [] text = "critical security bug" ->
            <<"c", "r", "i", "t", "i", "c", "a", "l", " ", "s", "e", "c",
              "u", "r", "i", "t", "y", " ", "b", "u", "g">>
      [] OTHER -> <<>>

\* staleDays, and the default of IsStale for a type without an entry
staleDays(type) ==
    CASE type = "blocker" -> 3
      [] type = "todo" -> 7
      [] type = "file_change" -> 14
      [] type = "dependency" -> 30
      [] type = "decision" -> 90
      [] type = "insight" -> 60
      [] OTHER -> 30

IsStaleAtThreshold(type, ageMinutes, content) ==
    \/ type = "blocker" /\ Contains(ToLower(content), resolved)
    \/ type = "todo" /\ Contains(ToLower(content), done)
    \/ ageMinutes >= staleDays(type) * MinutesPerDay

\* IsStale; ageMinutes is time.Since(created)
IsStale(type, ageMinutes, content) ==
    \/ type = "blocker" /\ Contains(ToLower(content), resolved)
    \/ type = "todo" /\ Contains(ToLower(content), done)
    \/ ageMinutes > staleDays(type) * MinutesPerDay

StaleContents ==
    { <<>>, <<"d", "o", "n", "e">>,
      <<"D", "O", "N", "E", ".">>,
      <<"a", "l", "l", " ", "D", "o", "n", "e">>,
      <<"d", "o", " ", "n", "e">>,
      <<"a", "b", "a", "n", "d", "o", "n", "e", "d">>,
      <<"r", "e", "s", "o", "l", "v", "e", "d">>,
      <<"n", "o", "t", " ", "R", "e", "S", "o", "l", "v", "e", "d", " ", "y", "e", "t">>,
      <<"R", "E", "S", "O", "L", "V", "E", " ", "D">>,
      <<"r", "e", "s", "o", "l", "v", "e">> }

\* ages around each threshold, the age of a fact created just now and the age
\* of one dated in the future
StaleAges ==
    {0 - MinutesPerDay, 0} \cup
    {d * MinutesPerDay + x : d \in {3, 7, 14, 30, 60, 90}, x \in {0 - 1, 0, 1}}

PureInit ==
    Init /\ ~enhanced /\ smartMode /\ ledgerDir /\ sweepLeft = 0 /\ ledgerFiles = NoFiles

\* each behaviour makes one call
StaleCall ==
    /\ call.op = "none"
    /\ \E type \in ScorerTypes, age \in StaleAges, content \in StaleContents :
          call' = [op |-> "stale", type |-> type, age |-> age, content |-> content,
                   result |-> IsStale(type, age, content)]
    /\ UNCHANGED <<now, ledgerFiles, handoffFiles, watcherVars>>

\* the comparison of sortByImportance: a is to come after b
SortsAfter(a, b) ==
    \/ a.Importance < b.Importance
    \/ a.Importance = b.Importance /\ a.Created < b.Created

Swap(s, i, j) == [s EXCEPT ![i] = s[j], ![j] = s[i]]

\* for j := i + 1; j < len(sorted); j++
RECURSIVE SortInner(_, _, _)
SortInner(s, i, j) ==
    IF j > Len(s) THEN s
    ELSE SortInner(IF SortsAfter(s[i], s[j]) THEN Swap(s, i, j) ELSE s, i, j + 1)

\* for i := 0; i < len(sorted); i++
RECURSIVE SortOuter(_, _)
SortOuter(s, i) ==
    IF i > Len(s) THEN s ELSE SortOuter(SortInner(s, i, i + 1), i + 1)

sortKeepingOrder(fs) == fs

sortByImportance(fs) == SortOuter(fs, 1)

\* grouped[type]: the facts of the type that are not stale, in input order
Grouped(fs, type) == SelectSeq(fs, LAMBDA f : ~f.Stale /\ f.Type = type)

\* the keys of grouped
GroupedTypes(fs) == {fs[i].Type : i \in {k \in 1..Len(fs) : ~fs[k].Stale}}

\* an order in which range visits the keys of a map: any
MapOrders(keys) ==
    {o \in [1..Cardinality(keys) -> keys] :
        \A i \in DOMAIN o : \A j \in DOMAIN o : i # j => o[i] # o[j]}

TopN(sorted, n) == SubSeq(sorted, 1, Min2(n, Len(sorted)))

\* Compress with maxFactsPerType = n >= 0, the map visited in the given order
Compress(fs, n, order) ==
    Concat([i \in DOMAIN order |-> TopN(sortByImportance(Grouped(fs, order[i])), n)])

MaxFacts == 3

CompressibleFact(type, importance, created, stale) ==
    [Type |-> type, Importance |-> importance, Created |-> created, Stale |-> stale]

CompressFacts ==
    {CompressibleFact(t, i, c, FALSE) : t \in {"todo", "blocker"}, i \in {3, 5}, c \in {0, 1}}
    \cup {CompressibleFact(t, 5, 1, TRUE) : t \in {"todo", "blocker"}}

CompressInputs == UNION {[1..n -> CompressFacts] : n \in 0..MaxFacts}

CompressCaps == {0, 1, 2}

CompressCall ==
    /\ call.op = "none"
    /\ \E fs \in CompressInputs, n \in CompressCaps :
          \E order \in MapOrders(GroupedTypes(fs)) :
             call' = [op |-> "compress", facts |-> fs, cap |-> n,
                      result |-> Compress(fs, n, order)]
    /\ UNCHANGED <<now, ledgerFiles, handoffFiles, watcherVars>>

\* Natural numbers of any size, as sequences of bits, least significant
\* first, without a leading zero at the end: <<>> is 0.

\* the highest position that holds a 1 bounds the sequence
TrimBits(a) ==
    LET ones == {i \in 1..Len(a) : a[i] = 1}
    IN  IF ones = {} THEN <<>> ELSE SubSeq(a, 1, MaxOf(ones))

BitsOf(n) == TrimBits([i \in 1..31 |-> (n \div 2^(i - 1)) % 2])

BitAt(a, i) == IF i <= Len(a) THEN a[i] ELSE 0

\* The arithmetic is done on limbs of LimbBits bits, least significant first.

LimbBits == 15

LimbBase == 2^LimbBits

RECURSIVE LimbOf(_, _, _)
LimbOf(a, from, n) ==
    IF n = 0 THEN 0 ELSE BitAt(a, from + 1) + 2 * LimbOf(a, from + 1, n - 1)

ToLimbs(a) ==
    [j \in 1..((Len(a) + LimbBits - 1) \div LimbBits) |->
        LimbOf(a, LimbBits * (j - 1), LimbBits)]

ToBits(limbs) ==
    TrimBits([i \in 1..(LimbBits * Len(limbs)) |->
                (limbs[(i - 1) \div LimbBits + 1] \div 2^((i - 1) % LimbBits)) % 2])

LimbAt(a, i) == IF i <= Len(a) THEN a[i] ELSE 0

RECURSIVE AddLimbs(_, _, _)
AddLimbs(a, b, c) ==
    IF a = <<>> /\ b = <<>> THEN (IF c = 0 THEN <<>> ELSE <<c>>)
    ELSE LET sum == LimbAt(a, 1) + LimbAt(b, 1) + c
         IN  <<sum % LimbBase>> \o AddLimbs(SubSeq(a, 2, Len(a)), SubSeq(b, 2, Len(b)),
                                            sum \div LimbBase)

\* a - b for a >= b
RECURSIVE SubLimbs(_, _, _)
SubLimbs(a, b, c) ==
    IF a = <<>> THEN <<>>
    ELSE LET d == LimbAt(a, 1) - LimbAt(b, 1) - c
         IN  <<d % LimbBase>> \o SubLimbs(SubSeq(a, 2, Len(a)), SubSeq(b, 2, Len(b)),
                                          IF d < 0 THEN 1 ELSE 0)

\* a * d + c for one limb d
RECURSIVE MulLimb(_, _, _)
MulLimb(a, d, c) ==
    IF a = <<>> THEN (IF c = 0 THEN <<>> ELSE <<c>>)
    ELSE LET p == Head(a) * d + c
         IN  <<p % LimbBase>> \o MulLimb(Tail(a), d, p \div LimbBase)

RECURSIVE MulLimbs(_, _)
MulLimbs(a, b) ==
    IF b = <<>> THEN <<>>
    ELSE AddLimbs(MulLimb(a, Head(b), 0), <<0>> \o MulLimbs(a, Tail(b)), 0)

AddBits(a, b) == ToBits(AddLimbs(ToLimbs(a), ToLimbs(b), 0))

\* a - b for a >= b
SubBits(a, b) == ToBits(SubLimbs(ToLimbs(a), ToLimbs(b), 0))

MulBits(a, b) == ToBits(MulLimbs(ToLimbs(a), ToLimbs(b)))

\* a * 2^k
ShiftLeft(a, k) == IF a = <<>> THEN <<>> ELSE [i \in 1..k |-> 0] \o a

LessBits(a, b) ==
    IF Len(a) # Len(b) THEN Len(a) < Len(b)
    ELSE \E i \in 1..Len(a) :
            a[i] < b[i] /\ \A j \in (i + 1)..Len(a) : a[j] = b[j]

\* the natural number rounded to p significant bits, to nearest, ties to even
RoundBits(a, p) ==
    IF Len(a) <= p THEN a
    ELSE LET k == Len(a) - p
             high == SubSeq(a, k + 1, Len(a))
             up == a[k] = 1 /\ (high[1] = 1 \/ \E i \in 1..(k - 1) : a[i] = 1)
         IN  ShiftLeft(IF up THEN AddBits(high, <<1>>) ELSE high, k)

\* Integers of any size: a sign and a magnitude

IntOf(n) == [neg |-> n < 0, mag |-> BitsOf(IF n < 0 THEN 0 - n ELSE n)]

Negative(x) == x.neg /\ x.mag # <<>>

Neg(x) == [neg |-> ~x.neg, mag |-> x.mag]

\* x >= y
GEq(x, y) ==
    IF Negative(x) # Negative(y) THEN Negative(y)
    ELSE IF Negative(x) THEN ~LessBits(y.mag, x.mag)
    ELSE ~LessBits(x.mag, y.mag)

SAdd(x, y) ==
    IF x.neg = y.neg THEN [neg |-> x.neg, mag |-> AddBits(x.mag, y.mag)]
    ELSE IF LessBits(x.mag, y.mag) THEN [neg |-> y.neg, mag |-> SubBits(y.mag, x.mag)]
    ELSE [neg |-> x.neg, mag |-> SubBits(x.mag, y.mag)]

SMul(x, y) == [neg |-> x.neg # y.neg, mag |-> MulBits(x.mag, y.mag)]

\* the value of an int computation kept in 64 bits, for a value of less than
\* 2^64 in magnitude
Wrap64(x) ==
    LET two63 == ShiftLeft(<<1>>, 63)
        two64 == ShiftLeft(<<1>>, 64)
    IN  IF ~Negative(x) /\ ~LessBits(x.mag, two63)
        THEN [neg |-> TRUE, mag |-> SubBits(two64, x.mag)]
        ELSE IF Negative(x) /\ LessBits(two63, x.mag)
        THEN [neg |-> FALSE, mag |-> SubBits(two64, x.mag)]
        ELSE x

\* float64(n): 53 significant bits
Float64(x) == [neg |-> x.neg, mag |-> RoundBits(x.mag, 53)]

\* warningPercent: the float64 nearest to 0.85 is WarningMantissa / 2^53
WarningMantissa ==
    <<1, 1, 0, 0, 1, 1, 0, 0, 1, 1, 0, 0, 1, 1, 0, 0, 1, 1, 0, 0,
      1, 1, 0, 0, 1, 1, 0, 0, 1, 1, 0, 0, 1, 1, 0, 0, 1, 1, 0, 0,
      1, 1, 0, 0, 1, 1, 0, 0, 1, 1, 0, 1, 1>>

\* float64(tokens) >= float64(d.threshold) * d.warningPercent, for a
\* detector of any threshold; both sides are compared as multiples of 2^-53
ShouldCreateHandoffAt(threshold, tokens) ==
    LET product == RoundBits(MulBits(Float64(threshold).mag, WarningMantissa), 53)
    IN  GEq([neg |-> tokens.neg,
             mag |-> ShiftLeft(Float64(tokens).mag, 53)],
            [neg |-> threshold.neg, mag |-> product])

TimeUntilCompactUnclamped(threshold, tokens) ==
    Wrap64(SAdd(threshold, Neg(tokens)))

TimeUntilCompact(threshold, tokens) ==
    LET remaining == Wrap64(SAdd(threshold, Neg(tokens)))
    IN  IF Negative(remaining) THEN IntOf(0) ELSE remaining

\* hi * 2^30 + lo
IntOfParts(hi, lo) ==
    [neg |-> FALSE, mag |-> AddBits(ShiftLeft(BitsOf(hi), 30), BitsOf(lo))]

\* thresholds: the default, small ones, a negative one, 2^48 - 3, 2^50 + 9,
\* 20 * 2^56 and the greatest int64
DetectorThresholds ==
    {IntOf(t) : t \in {0 - 100, 0, 1, 20, 100, CompactThreshold}}
    \cup {IntOfParts(262143, 1073741821),
          IntOfParts(1048576, 9),
          [neg |-> FALSE, mag |-> ShiftLeft(BitsOf(20), 56)],
          [neg |-> FALSE, mag |-> [i \in 1..63 |-> 1]]}

\* token counts: on both sides of 85% of each threshold, and -1
DetectorTokens ==
    {IntOf(k) : k \in {0 - 85, 0 - 1, 0, 1, 16, 17, 84, 85, 86, 100, 101,
                      144499, 144500, 144501, CompactThreshold + 1}}
    \cup {IntOfParts(222822, 429496727),
          IntOfParts(222822, 429496728),
          IntOfParts(891289, 644245102),
          IntOfParts(891289, 644245103),
          [neg |-> FALSE, mag |-> SubBits(ShiftLeft(BitsOf(17), 56), <<1>>)],
          [neg |-> FALSE, mag |-> ShiftLeft(BitsOf(17), 56)]}

DetectorCall ==
    /\ call.op = "none"
    /\ \E threshold \in DetectorThresholds, tokens \in DetectorTokens :
          call' = [op |-> "detector", threshold |-> threshold, tokens |-> tokens,
                   result |-> ShouldCreateHandoffAt(threshold, tokens),
                   next |-> ShouldCreateHandoffAt(threshold, SAdd(tokens, IntOf(1))),
                   remaining |-> TimeUntilCompact(threshold, tokens)]
    /\ UNCHANGED <<now, ledgerFiles, handoffFiles, watcherVars>>

\* GenerateDiff: the facts carry their type and content as strings

KeyWithImportance(fact) == fact.Type \o <<":">> \o fact.Content \o <<fact.Importance>>

\* key := fact.Type + ":" + fact.Content
Key(fact) == fact.Type \o <<":">> \o fact.Content

\* the map filled by a loop over the facts: a later fact replaces an earlier
\* one of the same key
FactMap(fs) ==
    [k \in {Key(fs[i]) : i \in DOMAIN fs} |->
        fs[MaxOf({i \in DOMAIN fs : Key(fs[i]) = k})]]

\* one part of the summary: Sprintf of a count and its words
Part(sign, n, words) == <<sign, n, words>>

NoSignificantChanges == <<"No significant changes">>

\* the parts are joined with ", ": the summary is kept as the list of them
generateSummary(diff) ==
    LET parts ==
            (IF Len(diff.Added) > 0
             THEN <<Part("", Len(diff.Added), " new facts")>> ELSE <<>>)
            \o (IF Len(diff.Removed) > 0
                THEN <<Part("", Len(diff.Removed), " resolved")>> ELSE <<>>)
            \o (IF diff.TokenDelta > 0
                THEN <<Part("+", diff.TokenDelta, " tokens")>>
                ELSE IF diff.TokenDelta < 0
                THEN <<Part("", diff.TokenDelta, " tokens")>> ELSE <<>>)
    IN  IF Len(parts) = 0 THEN NoSignificantChanges ELSE parts

\* GenerateDiff, the two maps visited in the given orders of their keys
GenerateDiff(previous, current, currOrder, prevOrder) ==
    LET prevMap == FactMap(previous.Facts)
        currMap == FactMap(current.Facts)
        added == SelectSeq(currOrder, LAMBDA k : k \notin DOMAIN prevMap)
        removed == SelectSeq(prevOrder, LAMBDA k : k \notin DOMAIN currMap)
        diff == [Added |-> [i \in DOMAIN added |-> currMap[added[i]]],
                 Removed |-> [i \in DOMAIN removed |-> prevMap[removed[i]]],
                 Modified |-> <<>>,
                 Summary |-> <<>>,
                 TokenDelta |-> current.TokenCount - previous.TokenCount]
    IN  [diff EXCEPT !.Summary = generateSummary(diff)]

MaxSnapshotFacts == 2

DiffFact(type, content, importance) ==
    [Type |-> type, Content |-> content, Importance |-> importance]

\* two facts of one key and two importances, two facts of different type
\* and content whose keys are the same string, one of another key
DiffFacts ==
    {DiffFact(<<"t">>, <<"c">>, 1), DiffFact(<<"t">>, <<"c">>, 2),
     DiffFact(<<"t">>, <<":", "c">>, 1), DiffFact(<<"t", ":">>, <<"c">>, 1),
     DiffFact(<<"b">>, <<"c", "i">>, 3)}

DiffTokenCounts == {0, 5}

SessionSnapshots ==
    {[Facts |-> fs, TokenCount |-> t] :
        fs \in UNION {[1..n -> DiffFacts] : n \in 0..MaxSnapshotFacts},
        t \in DiffTokenCounts}

DiffCall ==
    /\ call.op = "none"
    /\ \E previous \in SessionSnapshots, current \in SessionSnapshots :
          \E currOrder \in MapOrders(DOMAIN FactMap(current.Facts)),
             prevOrder \in MapOrders(DOMAIN FactMap(previous.Facts)) :
             call' = [op |-> "diff", previous |-> previous, current |-> current,
                      result |-> GenerateDiff(previous, current, currOrder, prevOrder)]
    /\ UNCHANGED <<now, ledgerFiles, handoffFiles, watcherVars>>

\* ExtractFacts on the characters of the messages

\* the trigger phrases of a fact type, in the order of the source
Keywords(type) ==
    CASE type = "decision" ->
           <<<<"d", "e", "c", "i", "d", "e", "d", " ", "t", "o">>,
             <<"c", "h", "o", "s", "e", " ", "t", "o">>,
             <<"g", "o", "i", "n", "g", " ", "w", "i", "t", "h">>,
             <<"w", "i", "l", "l", " ", "u", "s", "e">>>>
      [] type = "blocker" ->
           <<<<"b", "l", "o", "c", "k", "e", "d", " ", "b", "y">>,
             <<"c", "a", "n", "'", "t", " ", "p", "r", "o", "c", "e",
                 "e", "d">>,
             <<"e", "r", "r", "o", "r", ":">>,
             <<"f", "a", "i", "l", "e", "d", " ", "t", "o">>>>
      [] type = "todo" ->
           <<<<"T", "O", "D", "O", ":">>,
             <<"n", "e", "e", "d", " ", "t", "o">>,
             <<"s", "h", "o", "u", "l", "d">>,
             <<"m", "u", "s", "t">>>>
      [] type = "file_change" ->
           <<<<"c", "r", "e", "a", "t", "e", "d">>,
             <<"m", "o", "d", "i", "f", "i", "e", "d">>,
             <<"u", "p", "d", "a", "t", "e", "d">>,
             <<"d", "e", "l", "e", "t", "e", "d">>>>
      [] type = "dependency" ->
           <<<<"i", "n", "s", "t", "a", "l", "l", "e", "d">>,
             <<"a", "d", "d", "e", "d", " ", "d", "e", "p", "e", "n",
                 "d", "e", "n", "c", "y">>,
             <<"n", "p", "m", " ", "i", "n", "s", "t", "a", "l", "l">>,
             <<"g", "o", " ", "g", "e", "t">>>>
      [] type = "insight" ->
           <<<<"d", "i", "s", "c", "o", "v", "e", "r", "e", "d">>,
             <<"f", "o", "u", "n", "d", " ", "t", "h", "a", "t">>,
             <<"i", "n", "t", "e", "r", "e", "s", "t", "i", "n", "g">>,
             <<"n", "o", "t", "e", " ", "t", "h", "a", "t">>>>

\* the file extensions the file_change check asks for besides
Extensions ==
    <<<<".", "t", "s">>,
      <<".", "t", "s", "x">>,
      <<".", "j", "s">>,
      <<".", "j", "s", "x">>,
      <<".", "g", "o">>,
      <<".", "p", "y">>,
      <<".", "j", "a", "v", "a">>>>

\* message contents: two types in two sentences, one type in three
\* sentences, a file change, an action without a file, a phrase broken by a
\* full stop, a phrase between full stops and spaces, the empty message, all
\* six types, one type in two sentences, no phrase
ExtractContents ==
    <<<<"W", "e", " ", "d", "e", "c", "i", "d", "e", "d", " ", "t", "o",
        " ", "g", "o", ".", " ", "I", "t", " ", "f", "a", "i", "l", "e",
        "d", " ", "t", "o", " ", "r", "u", "n">>,
      <<"T", "O", "D", "O", ":", " ", "f", "i", "x", ".", " ", "N", "e",
        "e", "d", " ", "t", "o", " ", "t", "e", "s", "t", ".", " ", "s",
        "h", "o", "u", "l", "d">>,
      <<"I", " ", "c", "r", "e", "a", "t", "e", "d", " ", "m", "a", "i",
        "n", ".", "g", "o">>,
      <<"c", "r", "e", "a", "t", "e", "d", " ", "a", " ", "p", "l", "a",
        "n">>,
      <<"w", "i", "l", "l", ".", " ", "u", "s", "e">>,
      <<" ", ".", " ", "m", "u", "s", "t", " ", ".">>,
      <<>>,
      <<"D", "E", "C", "I", "D", "E", "D", " ", "T", "O", ";", " ", "e",
        "r", "r", "o", "r", ":", " ", "m", "u", "s", "t", ";", " ", "d",
        "e", "l", "e", "t", "e", "d", " ", "a", ".", "t", "s", ";", " ",
        "i", "n", "s", "t", "a", "l", "l", "e", "d", ";", " ", "n", "o",
        "t", "e", " ", "t", "h", "a", "t">>,
      <<"G", "o", "i", "n", "g", " ", "w", "i", "t", "h", " ", "x", ".",
        "W", "i", "l", "l", " ", "u", "s", "e", " ", "y">>,
      <<"n", "o", " ", "t", "r", "i", "g", "g", "e", "r", " ", "h", "e",
        "r", "e", ".">>>>

\* containsAny
containsAny(text, keywords) ==
    LET lowerText == ToLower(text)
    IN  \E i \in DOMAIN keywords : Contains(lowerText, ToLower(keywords[i]))

extractFirstSentence(text, keywords) == TrimSpace(Head(Split(text, ".")))

\* extractSentence: the first sentence that holds a keyword, trimmed
extractSentence(text, keywords) ==
    LET sentences == Split(text, ".")
        hits == {i \in DOMAIN sentences : containsAny(sentences[i], keywords)}
    IN  IF hits = {} THEN <<>>
        ELSE TrimSpace(sentences[CHOOSE i \in hits : \A j \in hits : i <= j])

\* the condition of the if statement of a fact type
Triggered(content, type) ==
    /\ containsAny(content, Keywords(type))
    /\ type = "file_change" => containsAny(content, Extensions)

AnyRole(role) == TRUE

\* msg.Role != "assistant" skips the message
IsAssistant(role) == role = "assistant"

\* one iteration of the loop over conv.Messages
FactsOfMessage(msg) ==
    IF ~IsAssistant(msg.Role) THEN <<>>
    ELSE LET ts == SelectSeq(FactTypeOrder, LAMBDA t : Triggered(msg.Content, t))
         IN  [i \in 1..Len(ts) |->
                 [Type |-> ts[i],
                  Content |-> extractSentence(msg.Content, Keywords(ts[i])),
                  Importance |-> DefaultImportance(ts[i])]]

\* ExtractFacts, on messages of a role and a content
ExtractFactsFrom(conv) == Concat([i \in DOMAIN conv |-> FactsOfMessage(conv[i])])

MaxMessages == 2

\* every content from the assistant, three of them from the user and two
\* from a role that differs from "assistant" in case only
ExtractMessages ==
    {[Role |-> "assistant", Content |-> ExtractContents[i]] : i \in DOMAIN ExtractContents}
    \cup {[Role |-> "user", Content |-> ExtractContents[i]] : i \in {1, 3, 7}}
    \cup {[Role |-> "Assistant", Content |-> ExtractContents[i]] : i \in {2, 8}}

ExtractCall ==
    /\ call.op = "none"
    /\ \E conv \in UNION {[1..n -> ExtractMessages] : n \in 0..MaxMessages} :
          call' = [op |-> "extract", conv |-> conv,
                   perMessage |-> [i \in DOMAIN conv |-> FactsOfMessage(conv[i])],
                   result |-> ExtractFactsFrom(conv)]
    /\ UNCHANGED <<now, ledgerFiles, handoffFiles, watcherVars>>

\* Parse and parseText on the characters of the log

UserMarker == <<"U", "s", "e", "r", ":">>

userMarker == <<"u", "s", "e", "r", ":">>

AssistantMarker == <<"A", "s", "s", "i", "s", "t", "a", "n", "t", ":">>

assistantMarker == <<"a", "s", "s", "i", "s", "t", "a", "n", "t", ":">>

\* lines of a log: the four markers the code knows, two in another letter
\* case, a line without a marker, a blank line, a marker after a marker
ParseLines ==
    <<<<"U", "s", "e", "r", ":", " ", "h", "i">>,
      <<"u", "s", "e", "r", ":", "y", "o">>,
      <<" ", "A", "s", "s", "i", "s", "t", "a", "n", "t", ":", " ", "o",
        "k", " ">>,
      <<"a", "s", "s", "i", "s", "t", "a", "n", "t", ":", " ", "a">>,
      <<"U", "S", "E", "R", ":", " ", "x">>,
      <<"a", "S", "S", "I", "S", "T", "A", "N", "T", ":", " ", "y">>,
      <<"m", "o", "r", "e">>,
      <<" ", " ">>,
      <<"U", "s", "e", "r", ":", "u", "s", "e", "r", ":", "z">>>>

\* the loop of parseText over the lines: conv holds the messages appended so
\* far, current is <<>> for a nil currentMessage and <<message>> otherwise
RECURSIVE parseLines(_, _, _)
parseLines(lines, conv, current) ==
    IF lines = <<>> THEN conv \o current
    ELSE LET line == TrimSpace(Head(lines))
             rest == Tail(lines)
         IN  IF line = <<>> THEN parseLines(rest, conv, current)
             ELSE IF HasPrefix(line, UserMarker) \/ HasPrefix(line, userMarker)
             THEN parseLines(rest, conv \o current,
                     <<[Role |-> "user",
                        Content |-> TrimPrefix(TrimPrefix(line, UserMarker), userMarker)]>>)
             ELSE IF HasPrefix(line, AssistantMarker) \/ HasPrefix(line, assistantMarker)
             THEN parseLines(rest, conv \o current,
                     <<[Role |-> "assistant",
                        Content |-> TrimPrefix(TrimPrefix(line, AssistantMarker),
                                               assistantMarker)]>>)
             ELSE IF current # <<>>
             THEN parseLines(rest, conv,
                     <<[current[1] EXCEPT !.Content = @ \o <<"\n">> \o line]>>)
             ELSE parseLines(rest, conv, current)

parseText(data) == parseLines(Split(data, "\n"), <<>>, <<>>)

\* the JSON documents among the inputs: an object without a field
JSONDocuments == {<<"{", "}">>}

\* json.Unmarshal into the conversation succeeds on a JSON object and fails
\* on the other inputs, none of which is a JSON value
Unmarshals(data) == data \in JSONDocuments

\* Parse: the conversation and the error it returns
Parse(data) ==
    [conv |-> IF Unmarshals(data) THEN <<>> ELSE parseText(data), err |-> FALSE]

MaxLines == 2

\* strings.Join(lines, "\n")
RECURSIVE JoinLines(_)
JoinLines(lines) ==
    IF lines = <<>> THEN <<>>
    ELSE IF Len(lines) = 1 THEN Head(lines)
    ELSE Head(lines) \o <<"\n">> \o JoinLines(Tail(lines))

ParseInputs ==
    {JoinLines([i \in DOMAIN ls |-> ParseLines[ls[i]]]) :
        ls \in UNION {[1..n -> DOMAIN ParseLines] : n \in 0..MaxLines}}
    \cup JSONDocuments

ParseCall ==
    /\ call.op = "none"
    /\ \E data \in ParseInputs :
          call' = [op |-> "parse", data |-> data, json |-> Unmarshals(data),
                   result |-> Parse(data).conv, err |-> Parse(data).err]
    /\ UNCHANGED <<now, ledgerFiles, handoffFiles, watcherVars>>

PureNext ==
    \/ StaleCall
    \/ CompressCall
    \/ DetectorCall
    \/ DiffCall
    \/ ExtractCall
    \/ ParseCall

PureSpec == PureInit /\ [][PureNext]_vars

-----------------------------------------------------------------------------
(* Claims *)

ConstructedAt == StartMinute

InitialLedgers == {NoFiles, [d \in {Day(PriorEntry.Timestamp)} |-> <<PriorEntry>>]}

FactKeys(fs) == [i \in 1..Len(fs) |-> <<fs[i].Type, fs[i].Content.text>>]
RecordKeys(as) == [i \in 1..Len(as) |-> <<as[i].record.fact_type, as[i].record.content>>]

\* C1: every handoff file written by a non-forced createHandoffIfNeeded call is
\* written at least 30 minutes after the previous handoff file was written and
\* at least 30 minutes after the Watcher was constructed.
C1_DebounceInvariant ==
    \A i \in 1..Len(handoffLog) :
        ~handoffLog[i].force =>
            /\ handoffLog[i].t - ConstructedAt >= HandoffMinInterval
            /\ i > 1 => handoffLog[i].t - handoffLog[i-1].t >= HandoffMinInterval

\* two consecutive non-forced calls made within 10 minutes of each other, each
\* finding an entry in the ledger
ClosePair(i) ==
    /\ i + 1 <= Len(calls)
    /\ calls[i+1].t - calls[i].t <= 10
    /\ calls[i].hasEntry
    /\ calls[i+1].hasEntry

C3_HandoffFromOwnEntry ==
    \A i \in 1..Len(handoffLog) :
        ~handoffLog[i].force => handoffLog[i].entryCycle = handoffLog[i].cycle

\* C4: a smart-mode cycle that observes a token count at or above 85% of the
\* threshold while no handoff was written in the preceding 30 minutes has
\* created a handoff by the time it completes.
C4_HandoffAtThreshold ==
    ( /\ Smart
      /\ cpc = "done"
      /\ ShouldCreateHandoff(tokenCount)
      /\ \A i \in 1..Len(handoffLog) :
            handoffLog[i].cycle # cycleNo => now - handoffLog[i].t >= HandoffMinInterval )
    => \E i \in 1..Len(handoffLog) :
            ~handoffLog[i].force /\ handoffLog[i].cycle = cycleNo

\* C5: shutdown is cooperative: the forced handoff is never generated, and the
\* subscription never closed, while a processing cycle is in flight.
C5_CooperativeShutdown ==
    /\ \A i \in 1..Len(handoffLog) : handoffLog[i].force => ~handoffLog[i].inFlight
    /\ closed => ~InFlight

\* C6: Stop runs the forced handoff (when smart features are enabled) before it
\* closes the subscription, so the subscription is closed only when Stop has
\* nothing left to do; without smart features no forced handoff is written.
C6_HandoffBeforeClose ==
    /\ closed => mpc \in {"stopped", "exited"}
    /\ ~smartMode => \A i \in 1..Len(handoffLog) : ~handoffLog[i].force

\* C7: in every cycle the CreateFact requests made so far are the extracted
\* facts in extraction order, one request per fact, and once the loop is over
\* every fact has had its request, whichever requests failed.
C7_OneAttemptPerFact ==
    cpc \in {"push", "append", "done"} =>
        /\ Len(attempts) = IF cpc = "push" THEN idx - 1 ELSE Len(facts)
        /\ RecordKeys(attempts) = SubSeq(FactKeys(facts), 1, Len(attempts))

C7_Witness ==
    /\ cpc = "done"
    /\ Len(facts) = 2
    /\ Len(attempts) = 2
    /\ ~attempts[1].ok
    /\ attempts[2].ok

\* C8: when a smart-mode cycle completes, AppendEntry has been called and every
\* fact has had its CreateFact request whatever AppendEntry returned, and an
\* appended entry holds every extracted fact whatever CreateFact returned.
C8_IndependentSideEffects ==
    (Smart /\ cpc = "done") =>
        /\ appendOutcome # "none"
        /\ Len(attempts) = Len(facts)
        /\ appendOutcome = "ok" =>
              LET lines == ledgerFiles[Day(now)]
                  e == lines[Len(lines)]
              IN  /\ e.cycle = cycleNo
                  /\ FactKeys(e.Facts) = FactKeys(facts)

C8_Witness ==
    /\ Smart
    /\ cpc = "done"
    /\ appendOutcome = "ok"
    /\ Len(facts) = 2
    /\ \A i \in 1..Len(attempts) : ~attempts[i].ok

\* C9: the Watcher of watcher.go with smart mode disabled never appends to the ledger, never
\* writes a handoff (Stop included) and sends every fact with the extractor's
\* default importance for its type.
C9_BasicModeFrame ==
    (~enhanced /\ ~smartMode) =>
        /\ ledgerFiles \in InitialLedgers
        /\ appendOutcome = "none"
        /\ handoffFiles = NoFiles
        /\ handoffLog = <<>>
        /\ lastHandoff = ConstructedAt
        /\ \A i \in 1..Len(attempts) :
              attempts[i].record.importance =
                  DefaultImportance(attempts[i].record.fact_type)

C9_Witness ==
    /\ ~enhanced
    /\ ~smartMode
    /\ mpc = "stopped"
    /\ cpc = "done"
    /\ cycleNo = 2
    /\ Len(attempts) = 2
    /\ attempts[1].ok

\* C10: a step in which os.ReadFile fails changes nothing but the count of
\* cycles: no request, no ledger or handoff write, token count and
\* lastHandoff kept, subscription open, and the Watcher is idle again.
C10_ReadFailureSkipsCycle ==
    [][(readFailed' /\ cycleNo' # cycleNo) =>
          /\ cpc' = "idle"
          /\ UNCHANGED <<currentTokens, lastHandoff, ledgerFiles, handoffFiles,
                         handoffLog, attempts, appendOutcome, calls, closed, wpc,
                         cpc, crashed>>]_vars

C10_Witness ==
    /\ readFailed
    /\ currentTokens > 0
    /\ wpc = "loop"
    /\ ~closed

\* the cycles of this run whose entries a ledger file holds, in file order
SessionCycles(lines) ==
    LET own == SelectSeq(lines, LAMBDA e : e.SessionID = SessionID)
    IN  [i \in 1..Len(own) |-> own[i].cycle]

Increasing(s) == \A i \in 1..Len(s) : \A j \in 1..Len(s) : i < j => s[i] < s[j]

\* C11: a cycle starts only when no cycle is in flight; cycles of the sweep
\* start before the watch loop exists and the loop starts only when the sweep
\* is over; CreateFact requests and ledger appends are made only by the cycle
\* in flight, so a ledger file holds the cycles' entries in cycle order.
C11_CyclesInOrder ==
    [][ /\ cycleNo' # cycleNo =>
              /\ ~InFlight
              /\ cpc = "idle"
              /\ cycleNo' = cycleNo + 1
              /\ IF mpc = "sweep" THEN wpc = "none" ELSE wpc = "loop"
        /\ wpc' # "none" => sweepLeft' = 0
        /\ (Len(attempts') > Len(attempts) \/ ledgerFiles' # ledgerFiles) =>
              InFlight /\ cycleNo' = cycleNo
        /\ \A d \in DOMAIN ledgerFiles' : Increasing(SessionCycles(ledgerFiles'[d]))
      ]_vars

C11_Witness ==
    /\ wpc = "loop"
    /\ cycleNo = 2
    /\ cpc = "done"
    /\ \E d \in DOMAIN ledgerFiles : Len(SessionCycles(ledgerFiles[d])) = 2

\* C12: when the ledger directory cannot be created the process does not get
\* past construction: the watch loop is never started and no cycle runs.
C12_DirFailureIsFatal ==
    ~ledgerDir => (mpc = "sweep" /\ wpc = "none" /\ cycleNo = 0)

\* C13: with verbose off no step writes a failure to the log.
C13_QuietWhenNotVerbose ==
    LogOutput(FALSE) = {}

\* every string of the entry is valid UTF-8
ValidStrings(entry) ==
    \A i \in 1..Len(entry.Facts) : entry.Facts[i].Content.text \notin InvalidUTF8

\* GetLatestEntry was called after at least one AppendEntry, every AppendEntry
\* so far succeeded, and the file could be read
LatestAfterAppends ==
    /\ call.op = "latest"
    /\ call.n > 0
    /\ call.allOk
    /\ call.readOk

\* C14 as stated: on a fresh ledger, after successful AppendEntry calls,
\* GetLatestEntry returns without error an entry equal to the entry of the
\* most recent AppendEntry, whatever the entry.
C14_RoundTripAnyEntry ==
    LatestAfterAppends =>
        /\ ~call.result.err
        /\ call.result.ptr = "entry"
        /\ call.result.entry = call.last

\* C14 amended: the same for entries whose strings are valid UTF-8; an entry
\* with an invalid byte comes back without error and coerced to valid UTF-8.
C14_RoundTripValidUTF8 ==
    LatestAfterAppends =>
        /\ ~call.result.err
        /\ call.result.ptr = "entry"
        /\ call.result.entry = Marshal(call.last)
        /\ ValidStrings(call.last) => call.result.entry = call.last

C14_Witness ==
    /\ LatestAfterAppends
    /\ call.n = 2
    /\ Cardinality(DOMAIN ledgerFiles) = 2
    /\ Len(call.last.Facts) = 1
    /\ call.result.entry = call.last

\* the lexicographically last ledger file has no non-empty line
LastFileEmpty(files) ==
    DOMAIN files # {} /\ Len(files[MaxOf(DOMAIN files)]) = 0

\* C15: GetLatestEntry returns an error when there is no ledger file and when
\* the last ledger file has no non-empty line, and it never returns without
\* an error and without an entry.
C15_NoEntryIsAnError ==
    call.op = "latest" =>
        /\ (DOMAIN ledgerFiles = {} \/ LastFileEmpty(ledgerFiles)) => call.result.err
        /\ ~call.result.err => call.result.ptr = "entry"

IsPrefix(a, b) == Len(a) <= Len(b) /\ SubSeq(b, 1, Len(a)) = a

\* the lines of the ledger file of day d, none when the file does not exist
LinesOf(files, d) == IF d \in DOMAIN files THEN files[d] ELSE <<>>

\* C16: no step removes a ledger file or changes a line already written: the
\* old content of each file is a prefix of its new content; a successful
\* AppendEntry adds exactly one line, the entry, at the end of the file of the
\* current day and leaves the other files as they were; GetLatestEntry and
\* CreateHandoff leave every ledger file as it was.
C16_AppendOnly ==
    [][ /\ \A d \in DOMAIN ledgerFiles :
              d \in DOMAIN ledgerFiles' /\ IsPrefix(ledgerFiles[d], ledgerFiles'[d])
        /\ (call'.op = "append" /\ call'.n = call.n + 1 /\ call'.ok) =>
              /\ LinesOf(ledgerFiles', Day(now)) =
                     Append(LinesOf(ledgerFiles, Day(now)), Marshal(call'.last))
              /\ \A d \in DOMAIN ledgerFiles' \ {Day(now)} :
                     d \in DOMAIN ledgerFiles /\ ledgerFiles'[d] = ledgerFiles[d]
        /\ call'.op \in {"latest", "handoff"} => ledgerFiles' = ledgerFiles
      ]_vars

C16_Witness ==
    /\ call.op = "append"
    /\ call.ok
    /\ Len(LinesOf(ledgerFiles, Day(now))) = 2
    /\ DOMAIN handoffFiles # {}

NonDecreasing(s) == \A i \in 1..Len(s) : \A j \in 1..Len(s) : i < j => s[i] <= s[j]

Timestamps(lines) == [i \in 1..Len(lines) |-> lines[i].Timestamp]

\* C17: in every state of a run of one daemon the entries of each per-day
\* ledger file are in non-decreasing order of their Timestamp.
C17_TimestampsInOrder ==
    \A d \in DOMAIN ledgerFiles : NonDecreasing(Timestamps(ledgerFiles[d]))

C17_Witness ==
    \E d \in DOMAIN ledgerFiles :
        LET own == SelectSeq(ledgerFiles[d], LAMBDA e : e.SessionID = SessionID)
        IN  /\ Len(ledgerFiles[d]) = 3
            /\ Len(own) = 2
            /\ own[1].Timestamp < own[2].Timestamp

\* C18: no step writes to a handoff file that exists, so the content of a
\* handoff file never changes and there are as many handoff files as
\* CreateHandoff calls that succeeded.
C18_HandoffWriteOnce ==
    [][ /\ \A t \in DOMAIN handoffFiles :
              t \in DOMAIN handoffFiles' /\ handoffFiles'[t] = handoffFiles[t]
        /\ Cardinality(DOMAIN handoffFiles') = Len(handoffLog')
      ]_vars

\* where the ledger holds an entry of cycle c of this run: <<file, line>> pairs
EntriesOfCycle(c) ==
    {p \in {<<d, i>> : d \in DOMAIN ledgerFiles, i \in 1..(MaxCycles + 2)} :
        /\ p[2] <= Len(ledgerFiles[p[1]])
        /\ ledgerFiles[p[1]][p[2]].SessionID = SessionID
        /\ ledgerFiles[p[1]][p[2]].cycle = c}

\* the entry is the one the claim describes for the cycle whose facts are
\* `facts` and whose CreateFact requests are `attempts`
EntryOfThisCycle(e) ==
    /\ Len(e.Facts) = Len(facts)
    /\ Len(attempts) = Len(facts)
    /\ \A i \in 1..Len(facts) :
          /\ e.Facts[i].Type = facts[i].Type
          /\ e.Facts[i].Content = CoerceContent(facts[i].Content)
          /\ e.Facts[i].Importance = attempts[i].record.importance
    /\ e.Decisions = filterFactsByType(e.Facts, "decision")
    /\ e.NextSteps = filterFactsByType(e.Facts, "todo")
    /\ e.Blockers = filterFactsByType(e.Facts, "blocker")
    /\ e.FileChanges = filterFactsByType(e.Facts, "file_change")

\* the cycle that read its file will take no further step: it has returned,
\* or the process has ended
CycleOver ==
    cpc # "idle" /\ (cpc = "done" \/ crashed \/ mpc = "exited")

\* C19: a smart cycle that has read its file and is over has appended exactly
\* one entry (unless AppendEntry itself failed), the entry holds the facts the
\* cycle extracted, in order, each with the importance sent to the remote
\* store, and its derived lists are the contents of its own facts by type; no
\* cycle ever has more than one entry.
C19_OneEntryPerCycle ==
    /\ \A c \in 1..MaxCycles : Cardinality(EntriesOfCycle(c)) <= 1
    /\ (Smart /\ CycleOver /\ appendOutcome \notin {"open_fail", "write_fail"}) =>
          /\ Cardinality(EntriesOfCycle(cycleNo)) = 1
          /\ \A p \in EntriesOfCycle(cycleNo) : EntryOfThisCycle(ledgerFiles[p[1]][p[2]])

\* the importances this run has sent to the remote store and written to the
\* ledger
ImportancesSent == {attempts[i].record.importance : i \in 1..Len(attempts)}

OwnEntries(lines) ==
    {e \in {lines[k] : k \in 1..Len(lines)} : e.SessionID = SessionID}

ImportancesOf(e) == {e.Facts[i].Importance : i \in 1..Len(e.Facts)}

ImportancesWritten ==
    UNION {ImportancesOf(e) : e \in UNION {OwnEntries(ledgerFiles[d]) : d \in DOMAIN ledgerFiles}}

\* C20: CalculateImportance returns an integer from 1 to 5 for every fact
\* type, known or not, every content and every creation time, and every
\* importance a smart run sends to the remote store or writes to the ledger
\* is from 1 to 5.
C20_ImportanceInRange ==
    /\ call.op = "score" => call.result \in 1..5
    /\ Smart => (ImportancesSent \cup ImportancesWritten) \subseteq 1..5

\* the scorer has been called with an unknown type, an empty content and the
\* zero time, and with a blocker full of keywords created in the future
C20_Witness ==
    /\ call.op = "score"
    /\ \/ /\ call.type = "note"
          /\ call.content.len = 0
          /\ call.age > 168 * 60
          /\ call.result = 1
       \/ /\ call.type = "blocker"
          /\ call.content.hi = 7
          /\ call.age < 0
          /\ call.result = 5

\* the step is the forced createHandoffIfNeeded(true) of Stop
StopHandoffStep == mpc = StopHandoffAt /\ mpc' # mpc /\ StopMakesHandoff

\* C29: the forced handoff of Stop never crashes the process: it writes a
\* handoff from a ledger entry or returns without writing, whatever the
\* ledger holds.
C29_StopNeverCrashes ==
    [][StopHandoffStep => ~crashed']_vars

\* C30: lastHandoff changes only in a step that writes a handoff file, and
\* such a step sets it to the time of the write; a call that fails in
\* GetLatestEntry or in CreateHandoff, and a call the debounce suppresses,
\* leave it as it was.
C30_LastHandoffOnlyOnWrite ==
    [][ /\ lastHandoff' # lastHandoff => Len(handoffLog') = Len(handoffLog) + 1
        /\ Len(handoffLog') = Len(handoffLog) + 1 =>
              lastHandoff' = now /\ handoffLog'[Len(handoffLog')].t = now
        /\ (failed' \cap {"latest", "handoff"}) # {} => lastHandoff' = lastHandoff
        /\ (cpc = "check" /\ cpc' \notin {"check", "handoff"}) =>
              lastHandoff' = lastHandoff
      ]_vars

\* a cycle's handoff was written after the debounce interval and the forced
\* handoff of Stop then failed in CreateHandoff
C30_Witness ==
    /\ failed = {"handoff"}
    /\ Len(handoffLog) = 1
    /\ lastHandoff = handoffLog[1].t
    /\ lastHandoff > StartMinute
    /\ mpc \in {"stop2", "stopped"}

\* two characters are the same letter whatever their case, or the same character
SameFold(a, b) ==
    \/ a = b
    \/ \E i \in 1..26 : {a, b} = {Upper[i], Lower[i]}

\* the word occurs in the string, in any letter case
ContainsFold(str, word) ==
    \E i \in 0..(Len(str) - Len(word)) :
        \A k \in 1..Len(word) : SameFold(str[i + k], word[k])

\* the thresholds the claim lists, in days
ClaimedStaleDays ==
    [blocker |-> 3, todo |-> 7, file_change |-> 14, dependency |-> 30,
     decision |-> 90, insight |-> 60]

ClaimedThreshold(type) ==
    IF type \in DOMAIN ClaimedStaleDays THEN ClaimedStaleDays[type] ELSE 30

\* C21: IsStale is true exactly when the type is blocker and the content
\* holds "resolved" in any case, or the type is todo and the content holds
\* "done" in any case, or the age is strictly greater than the threshold of
\* the type; the content cases hold at any age and an age equal to the
\* threshold is not stale.
C21_IsStaleExactly ==
    call.op = "stale" =>
        call.result =
            ( \/ call.type = "blocker" /\ ContainsFold(call.content, resolved)
              \/ call.type = "todo" /\ ContainsFold(call.content, done)
              \/ call.age > ClaimedThreshold(call.type) * MinutesPerDay )

\* a todo holding "Done" created just now is stale, and a blocker of exactly
\* three days that is not resolved is not
C21_Witness ==
    /\ call.op = "stale"
    /\ \/ /\ call.type = "todo"
          /\ call.age = 0
          /\ call.content = <<"a", "l", "l", " ", "D", "o", "n", "e">>
          /\ call.result
       \/ /\ call.type = "blocker"
          /\ call.age = 3 * MinutesPerDay
          /\ call.content = <<>>
          /\ ~call.result

\* how many times x occurs in the sequence
Count(seq, x) == Cardinality({i \in 1..Len(seq) : seq[i] = x})

\* the facts of the type among the facts of a list
OfType(seq, type) == SelectSeq(seq, LAMBDA f : f.Type = type)

\* a comes strictly before b in the order importance descending, ties by
\* created descending
RanksBefore(a, b) ==
    \/ a.Importance > b.Importance
    \/ a.Importance = b.Importance /\ a.Created > b.Created

\* C22: the result of Compress is a sub-multiset of its input without any
\* stale fact and with at most N facts of each type: for each type as many as
\* there are non-stale facts of it, up to N, and no fact left out ranks before
\* a fact that was kept.
C22_CompressKeepsTopN ==
    call.op = "compress" =>
        LET in == call.facts
            out == call.result
            live == SelectSeq(in, LAMBDA f : ~f.Stale)
        IN  /\ \A i \in 1..Len(out) : ~out[i].Stale /\ Count(out, out[i]) <= Count(in, out[i])
            /\ \A t \in {"todo", "blocker"} :
                  /\ Len(OfType(out, t)) = Min2(call.cap, Len(OfType(live, t)))
                  /\ \A i \in 1..Len(live) :
                        (live[i].Type = t /\ Count(out, live[i]) < Count(live, live[i])) =>
                            \A k \in 1..Len(out) :
                                out[k].Type = t => ~RanksBefore(live[i], out[k])

\* three non-stale todos and a cap of two: the one left out is the least
C22_Witness ==
    /\ call.op = "compress"
    /\ call.cap = 2
    /\ Len(call.facts) = 3
    /\ \A i \in 1..3 : call.facts[i].Type = "todo" /\ ~call.facts[i].Stale
    /\ call.facts[1].Importance < call.facts[2].Importance
    /\ call.facts[2].Created > call.facts[3].Created
    /\ Len(call.result) = 2

\* what the claim says of one call of the detector
DetectorAsClaimed ==
    /\ call.result =
          GEq(SMul(IntOf(100), call.tokens), SMul(IntOf(85), call.threshold))
    /\ call.result => call.next
    /\ ~Negative(call.remaining)
    /\ call.remaining =
          (IF GEq(call.threshold, call.tokens)
           THEN SAdd(call.threshold, Neg(call.tokens)) ELSE IntOf(0))

\* the magnitude is at most 2^48 - 1: the rounding of the float64 product
\* stays below a twentieth
Below2To48(x) == Len(x.mag) <= 48

\* C23 as stated: for every threshold and every token count
\* ShouldCreateHandoff is true exactly when 100 * tokens >= 85 * threshold, it
\* is monotone in tokens, and TimeUntilCompact is max(0, threshold - tokens)
\* and never negative.
C23_DetectorForEveryInteger ==
    call.op = "detector" => DetectorAsClaimed

\* C23 amended: the same for thresholds and token counts below 2^48 in
\* magnitude; for any input ShouldCreateHandoff is monotone and
\* TimeUntilCompact is not negative.
C23_DetectorBelow2To48 ==
    call.op = "detector" =>
        /\ (Below2To48(call.threshold) /\ Below2To48(call.tokens)) => DetectorAsClaimed
        /\ call.result => call.next
        /\ ~Negative(call.remaining)

\* threshold 100: true at 85 tokens with 15 left, false at 84 with 16 left
C23_Witness ==
    /\ call.op = "detector"
    /\ call.threshold = IntOf(100)
    /\ \/ call.tokens = IntOf(85) /\ call.result /\ call.remaining = IntOf(15)
       \/ call.tokens = IntOf(84) /\ ~call.result /\ call.next /\ call.remaining = IntOf(16)

\* the key as the claim writes it
ClaimedKey(fact) == fact.Type \o <<":">> \o fact.Content

KeysOf(fs) == {ClaimedKey(fs[i]) : i \in DOMAIN fs}

\* fs holds exactly one fact for each key of keys, each a fact of from
OneFactPerKey(fs, keys, from) ==
    /\ KeysOf(fs) = keys
    /\ Len(fs) = Cardinality(keys)
    /\ \A i \in DOMAIN fs : \E j \in DOMAIN from : fs[i] = from[j]

\* the summary states the counts of the diff
StatesTheCounts(diff) ==
    /\ diff.Summary # <<>>
    /\ Len(diff.Added) > 0 =>
          \E i \in DOMAIN diff.Summary : diff.Summary[i] = <<"", Len(diff.Added), " new facts">>
    /\ Len(diff.Removed) > 0 =>
          \E i \in DOMAIN diff.Summary : diff.Summary[i] = <<"", Len(diff.Removed), " resolved">>
    /\ diff.TokenDelta # 0 =>
          \E i \in DOMAIN diff.Summary :
             /\ diff.Summary[i][2] = diff.TokenDelta
             /\ diff.Summary[i][3] = " tokens"

\* C24: GenerateDiff returns in Added exactly one fact for each key of
\* current.Facts that is no key of previous.Facts, in Removed exactly one for
\* each key of previous.Facts that is no key of current.Facts, leaves Modified
\* empty, sets TokenDelta to the difference of the token counts, and its
\* summary is "No significant changes" exactly when Added and Removed are
\* empty and TokenDelta is 0, otherwise it states the counts; a fact whose key
\* is in both snapshots is reported in neither list, whatever its importance.
C24_DiffByKey ==
    call.op = "diff" =>
        LET prev == call.previous.Facts
            curr == call.current.Facts
            diff == call.result
        IN  /\ OneFactPerKey(diff.Added, KeysOf(curr) \ KeysOf(prev), curr)
            /\ OneFactPerKey(diff.Removed, KeysOf(prev) \ KeysOf(curr), prev)
            /\ diff.Modified = <<>>
            /\ diff.TokenDelta = call.current.TokenCount - call.previous.TokenCount
            /\ (diff.Summary = <<"No significant changes">>)
                  <=> (diff.Added = <<>> /\ diff.Removed = <<>> /\ diff.TokenDelta = 0)
            /\ diff.Summary # <<"No significant changes">> => StatesTheCounts(diff)
            /\ \A i \in DOMAIN curr : \A j \in DOMAIN prev :
                  ClaimedKey(curr[i]) = ClaimedKey(prev[j]) =>
                     /\ \A k \in DOMAIN diff.Added : ClaimedKey(diff.Added[k]) # ClaimedKey(curr[i])
                     /\ \A k \in DOMAIN diff.Removed : ClaimedKey(diff.Removed[k]) # ClaimedKey(curr[i])

\* a fact whose importance changed, one fact added, one removed and more
\* tokens
C24_Witness ==
    /\ call.op = "diff"
    /\ \E i \in DOMAIN call.current.Facts : \E j \in DOMAIN call.previous.Facts :
          /\ ClaimedKey(call.current.Facts[i]) = ClaimedKey(call.previous.Facts[j])
          /\ call.current.Facts[i].Importance # call.previous.Facts[j].Importance
    /\ Len(call.result.Added) = 1
    /\ Len(call.result.Removed) = 1
    /\ call.result.TokenDelta = 5
    /\ call.result.Summary =
          <<<<"", 1, " new facts">>, <<"", 1, " resolved">>, <<"+", 5, " tokens">>>>

SixTypes == {"decision", "blocker", "todo", "file_change", "dependency", "insight"}

\* C25: ExtractFacts returns the empty list for a conversation without a
\* message whose role is exactly "assistant"; in general the list is made, in
\* message order, of the facts of the assistant messages, at most one of each
\* of the six types for one message, each with a part of that message as its
\* content.
C25_OnlyAssistantMessages ==
    call.op = "extract" =>
        /\ (\A i \in DOMAIN call.conv : call.conv[i].Role # "assistant")
              => call.result = <<>>
        /\ call.result = Concat(call.perMessage)
        /\ \A i \in DOMAIN call.conv :
              LET fs == call.perMessage[i]
              IN  /\ fs # <<>> => call.conv[i].Role = "assistant"
                  /\ \A j \in DOMAIN fs :
                        /\ fs[j].Type \in SixTypes
                        /\ Contains(call.conv[i].Content, fs[j].Content)
                        /\ \A k \in DOMAIN fs : fs[j].Type = fs[k].Type => j = k

\* a user message and an "Assistant" message that hold trigger phrases give
\* nothing; an assistant message with three todo sentences gives one todo
C25_Witness ==
    /\ call.op = "extract"
    /\ Len(call.conv) = 2
    /\ call.conv[1].Role # "assistant"
    /\ call.conv[1].Content = ExtractContents[2]
    /\ call.conv[2] = [Role |-> "assistant", Content |-> ExtractContents[2]]
    /\ Len(call.result) = 1
    /\ call.result[1].Type = "todo"

\* a message for which ExtractFacts emits a fact whose content is the empty
\* string
EmitsEmptyContent(msg) ==
    \E i \in DOMAIN FactsOfMessage(msg) : FactsOfMessage(msg)[i].Content = <<>>

\* C28 as stated: ExtractFacts can emit a fact whose content is the empty
\* string, from a message that passes the check of some type while no
\* sentence of it holds a trigger phrase of the type: before the call, there
\* is such a message to call it with.
C28_EmptyContentCanBeEmitted ==
    call.op = "none" => \E msg \in ExtractMessages : EmitsEmptyContent(msg)

\* C28 amended: every fact ExtractFacts emits has a content that is not
\* empty: it is a sentence of the message, without a full stop and without a
\* space at its ends, that holds a trigger phrase of the type of the fact.
C28_ContentHoldsTrigger ==
    call.op = "extract" =>
        \A i \in DOMAIN call.result :
            LET content == call.result[i].Content
                phrases == Keywords(call.result[i].Type)
            IN  /\ content # <<>>
                /\ \A k \in DOMAIN content : content[k] # "."
                /\ content[1] \notin WhiteSpace
                /\ content[Len(content)] \notin WhiteSpace
                /\ \E p \in DOMAIN phrases :
                      \E k \in 0..(Len(content) - Len(phrases[p])) :
                         \A c \in 1..Len(phrases[p]) :
                            SameFold(content[k + c], phrases[p][c])

\* the phrase between full stops and spaces gives a todo of content "must";
\* the broken phrase "will. use" gives no fact
C28_Witness ==
    /\ call.op = "extract"
    /\ Len(call.conv) = 2
    /\ call.conv[1] = [Role |-> "assistant", Content |-> ExtractContents[6]]
    /\ call.conv[2] = [Role |-> "assistant", Content |-> ExtractContents[5]]
    /\ Len(call.result) = 1
    /\ call.result[1].Content = <<"m", "u", "s", "t">>

\* the string begins with the word, in any letter case
HasPrefixFold(str, word) ==
    /\ Len(word) <= Len(str)
    /\ \A i \in 1..Len(word) : SameFold(str[i], word[i])

\* the role a line announces according to the claim, "" for none
ClaimedRole(line) ==
    IF HasPrefixFold(TrimSpace(line), <<"u", "s", "e", "r", ":">>) THEN "user"
    ELSE IF HasPrefixFold(TrimSpace(line),
                          <<"a", "s", "s", "i", "s", "t", "a", "n", "t", ":">>)
    THEN "assistant"
    ELSE ""

\* the roles of the lines that announce one, in line order
ClaimedRoles(data) ==
    LET lines == Split(data, "\n")
        roles == [i \in DOMAIN lines |-> ClaimedRole(lines[i])]
    IN  SelectSeq(roles, LAMBDA r : r # "")

\* C27: for an input that is not JSON the result of Parse has one message
\* for each non-blank line that begins, after trimming, with "User:" or
\* "Assistant:" in any letter case, in line order and with the matching
\* role, so none for an input without such a line; Parse returns no error.
C27_MarkersInAnyLetterCase ==
    (call.op = "parse" /\ ~call.json) =>
        /\ [i \in DOMAIN call.result |-> call.result[i].Role] = ClaimedRoles(call.data)
        /\ ~call.err

\* the record of the i-th CreateFact request of the cycle is in the record
\* store and IsStale holds for it
StaleDue(i) ==
    /\ attempts[i].ok
    /\ IsStale(attempts[i].record.fact_type, 0, SentenceChars(attempts[i].record.content))

\* a record of the record store has been updated to stale = true
StaleMarked ==
    \E i \in 1..Len(attempts) :
        attempts[i].record = UpdateFactStale(attempts[i].record, TRUE)

\* C26: a fact record the daemon created is eventually updated to stale =
\* true in the record store once IsStale holds for it.
C26_StaleFactsGetMarked ==
    (\E i \in 1..Len(attempts) : StaleDue(i)) ~> StaleMarked

====
